---- MODULE Spec2Model ----
(***************************************************************************)
(* Verification model of docteur, a cold-start profiler for AdonisJS.      *)
(*                                                                         *)
(*   SpecLifecycle   the Lifecycle Observer of the profiler loader         *)
(*                   (subscribePhase: start / end / asyncStart / asyncEnd  *)
(*                   / error handlers and the setTimeout-deferred check).  *)
(*   SpecController  the Process Controller (profile / runProfiledProcess: *)
(*                   timeout, complete, stdout, message, error and exit    *)
(*                   handlers).                                            *)
(***************************************************************************)
EXTENDS Integers, Sequences, FiniteSets, TLC

VARIABLES
  \* ---- loader, main thread of the profiled process ----
  providerStarts,   \* Map key -> performance.now() of the pending start
  asyncCalls,       \* Set of keys whose asyncStart fired (and asyncEnd not yet)
  providerPhases,   \* Map provider name -> Record phase -> duration
  timers,           \* FIFO of the setTimeout(..., 0) callbacks scheduled by end
  now,              \* performance.now() of the profiled process
  inv,              \* the tracing channel's invocations (history of the events fired)
  \* ---- profiler, parent process ----
  input,            \* profile(cwd, options) and the files that exist on disk
  promise,          \* the promise returned by profile()
  state,            \* ProfilerState of runProfiledProcess
  child,            \* the forked ChildProcess
  signals,          \* signals delivered to the child by child.kill
  timeout,          \* the setTimeout(..., TIMEOUT_MS) timer
  forceKill,        \* the setTimeout(..., 500) timer of complete()
  onceExit,         \* complete() has registered child.once('exit', ...)
  clock,            \* milliseconds since the child was forked
  requests,         \* getResults messages sent to the child
  chunks,           \* 'data' events of the child's stdout handled so far
  uncaught,         \* a handler threw: uncaught exception in the parent
  first,            \* the results message that completed the run (history)
  stdoutTail,       \* the end of the child's stdout so far (history)
  \* ---- hooks thread and main thread of the profiled process ----
  port,             \* hooks: the MessagePort, null until initialize
  pendingMessages,  \* hooks: messages queued for the next flush
  flushScheduled,   \* hooks: the flushScheduled flag
  immediates,       \* hooks: the setImmediate(flush) callbacks not yet run
  channel,          \* batches posted on port2 and not yet handled on port1
  loadTimes,        \* loader: Map url -> load time
  parents,          \* loader: Map child url -> parent url
  sent,             \* results payloads sent to the parent by process.send
  emitted,          \* the observations queued by the hooks so far (history)
  returned,         \* hooks: what the last hook call returned, and whether it was timed
  \* ---- reporting: ProfileCollector and the dependency tree ----
  modules,          \* the ModuleTiming objects, in the order of the module list
  stage,            \* how far the report went: input, collected, filtered, reported
  filtered,         \* the list returned by filterModules: indexes into modules
  tree,             \* the DependencyTree, once built
  summary,          \* the ProfileSummary, once computed
  groups,           \* the PackageGroups, once computed
  providers,        \* the collector's ProviderTiming rows, once constructed
  \* ---- x-ray views ----
  chain,             \* the import chain shown for a module, once computed
  \* ---- x-ray: XRayApp ----
  hasProviders,     \* result.providers.length > 0
  view,             \* 'modules' or 'providers'
  moduleHistory,    \* the modules opened, the current one last
  selectedProvider, \* the provider whose detail is open, or null
  exited            \* exit() of the app was called

lifeVars == <<providerStarts, asyncCalls, providerPhases, timers, now, inv>>

ctlVars == <<input, promise, state, child, signals, timeout, forceKill, onceExit,
             clock, requests, chunks, uncaught, first, stdoutTail>>

aggVars == <<port, pendingMessages, flushScheduled, immediates, channel, loadTimes, parents, sent,
             emitted, returned>>

navVars == <<hasProviders, view, moduleHistory, selectedProvider, exited>>

xrayVars == <<chain, navVars>>

repVars == <<modules, stage, filtered, tree, summary, groups, providers, xrayVars>>

vars == <<providerStarts, asyncCalls, providerPhases, timers, now, inv,
          input, promise, state, child, signals, timeout, forceKill, onceExit,
          clock, requests, chunks, uncaught, first, stdoutTail,
          port, pendingMessages, flushScheduled, immediates, channel, loadTimes, parents, sent,
          emitted, returned,
          modules, stage, filtered, tree, summary, groups, providers, xrayVars>>

-----------------------------------------------------------------------------
(* Bounds of the model.                                                    *)

\* Number of provider method invocations the tracing channels publish.
MaxInvocations == 2
\* Number of tracing events (start, end, asyncStart, asyncEnd) published in a run.
MaxEvents == 5
\* Largest value of performance.now() in the profiled process.
MaxTime == 1
\* Number of 'data' events of the child's stdout.
MaxChunks == 2
\* Length of one stdout chunk, in pieces of text.
MaxChunkLen == 2
\* Number of resolve and load hook calls of the profiled process.
MaxHookCalls == 2
\* Number of getResults messages the profiled process handles.
MaxReplies == 2

-----------------------------------------------------------------------------
(* Map helpers: a JavaScript Map / Record is a function with a finite      *)
(* domain; get() of a missing key is "undefined", modelled by the key not  *)
(* being in the domain.                                                    *)

Range(seq) == {seq[k] : k \in 1..Len(seq)}

EmptyMap == [k \in {} |-> 0]

MapHas(m, k) == k \in DOMAIN m

MapSet(m, k, v) == [x \in (DOMAIN m) \cup {k} |-> IF x = k THEN v ELSE m[x]]

\* Mutant: the entry is not deleted.
MapDelete_Keep(m, k) == m

MapDelete(m, k) == [x \in (DOMAIN m) \ {k} |-> m[x]]

-----------------------------------------------------------------------------
(* Lifecycle Observer.                                                     *)

\* Constructor names of the providers the application registers.
ProviderNames == {"AppProvider", "HashProvider"}

\* subscribePhase(tracingChannels.providerX, phase): the five channels get the
\* same handlers, which differ only in the phase name.
Phases == {"register", "boot", "start", "ready", "shutdown"}

\* The (provider, phase) pairs invoked in the model: two phases of one
\* provider and one phase of another.
TracedKeys ==
  {<<"AppProvider", "boot">>, <<"AppProvider", "shutdown">>, <<"HashProvider", "boot">>}

\* A provider method is synchronous (start, end) or asynchronous
\* (start, end, asyncStart, asyncEnd).
Kinds == {"sync", "async"}

Invocations == 1..MaxInvocations

\* `${getName(msg)}:${phase}`
Key(name, phase) == <<name, phase>>

\* An invocation records which events the channel has published for it: its
\* stage, the time of its start and end events while they are still awaited
\* by a commit, whether asyncStart was published before its deferred check
\* ran, and whether an error event was published for it.
IdleInvocation ==
  [name |-> "", phase |-> "", kind |-> "sync", stage |-> "idle",
   startAt |-> 0, endAt |-> 0, asyncFirst |-> FALSE, errored |-> FALSE]

InvKey(i) == Key(inv[i].name, inv[i].phase)

\* The deferred check scheduled by the end event of invocation i is still queued.
HasTimer(i) == \E k \in 1..Len(timers) : timers[k].inv = i

\* Invocation i has fired start and not yet all of its events, or its deferred
\* check has not run yet.
InFlight(i) ==
  \/ inv[i].stage \in {"started", "asyncStarted"}
  \/ inv[i].stage = "ended" /\ inv[i].kind = "async"
  \/ HasTimer(i)

\* No other invocation published so far has the key of invocation i.
Solo(i) == \A j \in Invocations \ {i} : inv[j].stage = "idle" \/ InvKey(j) # InvKey(i)

StageIndex(s) ==
  CASE s = "idle" -> 0 [] s = "started" -> 1 [] s = "ended" -> 2
    [] s = "asyncStarted" -> 3 [] s = "asyncEnded" -> 4

RECURSIVE EventsPublished(_)
EventsPublished(n) ==
  IF n = 0 THEN 0
  ELSE StageIndex(inv[n].stage) + (IF inv[n].errored THEN 1 ELSE 0) + EventsPublished(n - 1)

CanPublish == EventsPublished(MaxInvocations) < MaxEvents

\* The duration committed for a key, if any.
HasDuration(phasesMap, name, phase) == MapHas(phasesMap, name) /\ MapHas(phasesMap[name], phase)

InitLifecycleVars ==
  /\ providerStarts = EmptyMap
  /\ asyncCalls = {}
  /\ providerPhases = EmptyMap
  /\ timers = <<>>
  /\ now = 0
  /\ inv = [i \in Invocations |-> IdleInvocation]

\* Mutant: the provider's record is replaced by one holding this phase only.
recordTiming_Replace(name, phase, duration) ==
  MapSet(providerPhases, name, MapSet(EmptyMap, phase, duration))

\* phases[phase] = duration; providerPhases.set(name, phases)
recordTiming(name, phase, duration) ==
  LET phases == IF MapHas(providerPhases, name) THEN providerPhases[name] ELSE EmptyMap
  IN  MapSet(providerPhases, name, MapSet(phases, phase, duration))

\* Mutant: a start for a key that is still pending keeps the first start time.
setStart_KeepFirst(key) ==
  IF MapHas(providerStarts, key) THEN providerStarts ELSE MapSet(providerStarts, key, now)

\* providerStarts.set(key, performance.now())
setStart(key) == MapSet(providerStarts, key, now)

\* start(msg): providerStarts.set(key, performance.now())
start(i, name, phase, kind) ==
  /\ inv[i].stage = "idle"
  /\ \A j \in Invocations : j < i => inv[j].stage # "idle"
  /\ CanPublish
  /\ providerStarts' = setStart(Key(name, phase))
  /\ inv' = [inv EXCEPT ![i] = [@ EXCEPT !.name = name, !.phase = phase, !.kind = kind,
                                         !.stage = "started", !.startAt = now]]
  /\ UNCHANGED <<asyncCalls, providerPhases, timers, now>>
  /\ UNCHANGED ctlVars
  /\ UNCHANGED aggVars
  /\ UNCHANGED repVars

\* end(msg): endTime = performance.now(); setTimeout(check, 0)
end(i) ==
  /\ inv[i].stage = "started"
  /\ CanPublish
  /\ timers' = Append(timers, [inv |-> i, name |-> inv[i].name, phase |-> inv[i].phase,
                               endTime |-> now])
  /\ inv' = [inv EXCEPT ![i].stage = "ended", ![i].endAt = now]
  /\ UNCHANGED <<providerStarts, asyncCalls, providerPhases, now>>
  /\ UNCHANGED ctlVars
  /\ UNCHANGED aggVars
  /\ UNCHANGED repVars

\* Mutant: the deferred check does not look at asyncCalls.
IsAsync_Ignored(key) == FALSE

\* if (asyncCalls.has(key)) return
IsAsync(key) == key \in asyncCalls

\* Mutant: the duration is taken when the deferred check runs.
SyncDuration_AtCheck(endTime, startTime) == now - startTime

\* endTime - start
SyncDuration(endTime, startTime) == endTime - startTime

\* The callback of the setTimeout(..., 0) scheduled by end. Timers of equal
\* delay run in the order they were scheduled.
endDeferred ==
  /\ timers # <<>>
  /\ LET t == Head(timers)
         key == Key(t.name, t.phase)
     IN  IF ~IsAsync(key) /\ MapHas(providerStarts, key)
         THEN /\ providerPhases' =
                   recordTiming(t.name, t.phase, SyncDuration(t.endTime, providerStarts[key]))
              /\ providerStarts' = MapDelete(providerStarts, key)
         ELSE UNCHANGED <<providerStarts, providerPhases>>
  /\ timers' = Tail(timers)
  /\ LET i == Head(timers).inv
         finished == inv[i].stage = "asyncEnded" \/ (inv[i].stage = "ended" /\ inv[i].kind = "sync")
     IN  inv' = [inv EXCEPT ![i].endAt = 0, ![i].startAt = IF finished THEN 0 ELSE @]
  /\ UNCHANGED <<asyncCalls, now>>
  /\ UNCHANGED ctlVars
  /\ UNCHANGED aggVars
  /\ UNCHANGED repVars

\* asyncStart(msg): asyncCalls.add(key)
asyncStart(i) ==
  /\ inv[i].kind = "async"
  /\ inv[i].stage = "ended"
  /\ CanPublish
  /\ asyncCalls' = asyncCalls \cup {InvKey(i)}
  /\ inv' = [inv EXCEPT ![i].stage = "asyncStarted", ![i].asyncFirst = HasTimer(i)]
  /\ UNCHANGED <<providerStarts, providerPhases, timers, now>>
  /\ UNCHANGED ctlVars
  /\ UNCHANGED aggVars
  /\ UNCHANGED repVars

\* performance.now() - start
AsyncDuration(startTime) == now - startTime

\* asyncEnd(msg)
asyncEnd(i) ==
  /\ inv[i].stage = "asyncStarted"
  /\ CanPublish
  /\ LET key == InvKey(i)
     IN  /\ IF MapHas(providerStarts, key)
            THEN /\ providerPhases' =
                      recordTiming(inv[i].name, inv[i].phase, AsyncDuration(providerStarts[key]))
                 /\ providerStarts' = MapDelete(providerStarts, key)
            ELSE UNCHANGED <<providerStarts, providerPhases>>
         /\ asyncCalls' = asyncCalls \ {key}
  /\ inv' = [inv EXCEPT ![i].stage = "asyncEnded",
                         ![i].startAt = IF HasTimer(i) THEN @ ELSE 0]
  /\ UNCHANGED <<timers, now>>
  /\ UNCHANGED ctlVars
  /\ UNCHANGED aggVars
  /\ UNCHANGED repVars

\* The channel publishes error when the provider method throws (after start,
\* before end) or when the promise of an asynchronous one rejects (after end,
\* before asyncStart), once per invocation.
CanFail(i) ==
  /\ ~inv[i].errored
  /\ \/ inv[i].stage = "started"
     \/ inv[i].stage = "ended" /\ inv[i].kind = "async"
  /\ CanPublish

\* Mutant: the error handler drops the pending start of the failed key.
error_DropsStart(i) ==
  /\ CanFail(i)
  /\ providerStarts' = MapDelete(providerStarts, InvKey(i))
  /\ inv' = [inv EXCEPT ![i].errored = TRUE]
  /\ UNCHANGED <<asyncCalls, providerPhases, timers, now>>
  /\ UNCHANGED ctlVars
  /\ UNCHANGED aggVars
  /\ UNCHANGED repVars

\* error() {}: the event is observed and discarded.
error(i) ==
  /\ CanFail(i)
  /\ inv' = [inv EXCEPT ![i].errored = TRUE]
  /\ UNCHANGED <<providerStarts, asyncCalls, providerPhases, timers, now>>
  /\ UNCHANGED ctlVars
  /\ UNCHANGED aggVars
  /\ UNCHANGED repVars

\* performance.now() is monotonic; the handlers read it only while an
\* invocation is in flight.
Tick ==
  /\ now < MaxTime
  /\ \E i \in Invocations : InFlight(i)
  /\ now' = now + 1
  /\ UNCHANGED <<providerStarts, asyncCalls, providerPhases, timers, inv>>
  /\ UNCHANGED ctlVars
  /\ UNCHANGED aggVars
  /\ UNCHANGED repVars


-----------------------------------------------------------------------------
(* Process Controller: values.                                             *)

\* const TIMEOUT_MS = 30_000
TIMEOUT_MS == 30000

\* setTimeout(() => child.kill('SIGKILL'), 500)
GRACE_MS == 500

\* An optional JavaScript value: <<>> is undefined, <<v>> is the value v.
None == <<>>

Some(v) == <<v>>

\* value || fallback
OrElse(opt, fallback) == IF opt = None THEN fallback ELSE opt[1]

\* A path is the sequence of its segments.
DefaultEntry == <<"bin", "server.ts">>

\* path.join normalises the joined path: "." segments are dropped and ".."
\* removes the segment before it.
RECURSIVE Normalize(_, _)
Normalize(done, rest) ==
  IF rest = <<>> THEN done
  ELSE IF Head(rest) = "." THEN Normalize(done, Tail(rest))
  ELSE IF Head(rest) = ".." /\ done # <<>> /\ done[Len(done)] # ".."
       THEN Normalize(SubSeq(done, 1, Len(done) - 1), Tail(rest))
  ELSE Normalize(Append(done, Head(rest)), Tail(rest))

join(a, b) == Normalize(<<>>, a \o b)

\* profile(cwd, { entryPoint }): the working directory, the configured entry
\* (undefined, the empty string, a relative path) and the files on disk.
Cwds == {<<"app">>}

Entries == {None, Some(<<>>), Some(<<"bin", "console.ts">>), Some(<<".", "..", "api", "server.ts">>)}

FileSystems == {{}, {<<"app", "bin", "server.ts">>}, {<<"app", "bin", "console.ts">>}}

Inputs == [cwd : Cwds, entry : Entries, files : FileSystems]

\* The exit code of the 'exit' event: null (killed by a signal) or a number.
ExitCodes == {None, Some(0), Some(1), Some(137), Some(143)}

\* Pieces of text of the child's stdout; the readiness marker
\* 'started HTTP server' may arrive whole or split over two chunks.
Marker == <<"started HTTP", " server">>

Pieces == {"started HTTP", " server"}

Chunks == UNION {[1..n -> Pieces] : n \in 1..MaxChunkLen}

\* output.includes(marker)
Includes(output, marker) ==
  \E k \in 0..(Len(output) - Len(marker)) :
    \A j \in 1..Len(marker) : output[k + j] = marker[j]

\* The last n pieces of a text.
LastPieces(text, n) ==
  IF Len(text) <= n THEN text ELSE SubSeq(text, Len(text) - n + 1, Len(text))

\* ResultsData sent by the child; every field may be missing.
Payloads ==
  { [loadTimes |-> Some([u \in {"file:///app/a.ts"} |-> 10]), parents |-> None,
     providerPhases |-> None],
    [loadTimes |-> Some([u \in {"file:///app/a.ts", "file:///app/b.ts"} |-> 20]),
     parents |-> Some([u \in {"file:///app/b.ts"} |-> "file:///app/a.ts"]),
     providerPhases |-> Some([n \in {"AppProvider"} |-> [boot |-> 5]])] }

NoLoadTimes == [loadTimes |-> None, parents |-> None, providerPhases |-> None]

\* A value received on the IPC channel: null, a primitive, or an object with
\* some of the properties the handler reads ("" and None: property missing).
EmptyObject ==
  [js |-> "object", type |-> "", isAdonisJS |-> FALSE, environment |-> "",
   duration |-> None, data |-> None]

ReadyMessage ==
  [EmptyObject EXCEPT !.isAdonisJS = TRUE, !.environment = "web", !.duration = <<1, 500>>]

ResultsMessage(payload) == [EmptyObject EXCEPT !.type = "results", !.data = Some(payload)]

Messages ==
  {ResultsMessage(p) : p \in Payloads \cup {NoLoadTimes}} \cup
  { ReadyMessage,
    [ReadyMessage EXCEPT !.environment = "console"],
    [ReadyMessage EXCEPT !.duration = <<7>>],
    [EmptyObject EXCEPT !.type = "results"],
    [EmptyObject EXCEPT !.type = "provider"],
    [EmptyObject EXCEPT !.js = "null"],
    [EmptyObject EXCEPT !.js = "primitive"] }

\* The promise returned by profile().
Unsettled(status) ==
  [status |-> status, kind |-> "", code |-> None, path |-> <<>>, data |-> None]

\* reject(err): a settled promise stays as it is.
Reject(p, kind, code, path) ==
  IF p.status = "pending"
  THEN [status |-> "rejected", kind |-> kind, code |-> code, path |-> path, data |-> None]
  ELSE p

\* resolve(state)
Resolve(p, st) ==
  IF p.status = "pending"
  THEN [status |-> "resolved", kind |-> "", code |-> None, path |-> <<>>,
        data |-> Some([loadTimes |-> st.loadTimes, parents |-> st.parents,
                       providerPhases |-> st.providerPhases,
                       bootDuration |-> st.bootDuration])]
  ELSE p

\* Mutant: clearing a timer leaves it armed.
ClearTimeout_Keep(t) == t

\* clearTimeout(timer)
ClearTimeout(t) == IF t = "armed" THEN "cleared" ELSE t

\* child.kill(signal): delivers the signal unless the child has exited.
Kill(signal) == IF child.status = "running" THEN Append(signals, signal) ELSE signals

NoTimer == [status |-> "unset", at |-> 0]

-----------------------------------------------------------------------------
(* Process Controller: profile() and the handlers of runProfiledProcess.   *)

\* const state: ProfilerState = { loadTimes: new Map(), parents: new Map(),
\* providerPhases: new Map(), done: false }
InitialState ==
  [providerPhases |-> EmptyMap, loadTimes |-> EmptyMap, parents |-> EmptyMap,
   bootDuration |-> None, done |-> FALSE]

\* Nothing forked, no timer armed, nothing received.
InitControllerRest ==
  /\ promise = Unsettled("none")
  /\ child = [status |-> "none", exitCode |-> None]
  /\ signals = <<>>
  /\ timeout = "unset"
  /\ forceKill = NoTimer
  /\ onceExit = FALSE
  /\ clock = 0
  /\ requests = 0
  /\ chunks = 0
  /\ uncaught = FALSE
  /\ first = [seen |-> FALSE, data |-> None]
  /\ stdoutTail = <<>>

InitControllerVars == state = InitialState /\ InitControllerRest

\* Mutant: the entry file is not looked for.
existsSync_Always(path) == TRUE

\* existsSync(entryPath)
existsSync(path) == path \in input.files

\* const entryPath = join(cwd, entry || 'bin/server.ts')
EntryPath(cwd, entry) == join(cwd, IF entry = None \/ entry[1] = <<>> THEN DefaultEntry ELSE entry[1])

\* findEntryPoint throws when the file does not exist.
findEntryPointThrows(cwd, entry) == ~existsSync(EntryPath(cwd, entry))

\* profile(cwd, options): findEntryPoint, then runProfiledProcess forks the
\* child, arms the timeout and registers the handlers.
profile ==
  /\ promise.status = "none"
  /\ IF findEntryPointThrows(input.cwd, input.entry)
     THEN /\ promise' = Reject(Unsettled("pending"), "EntryPointNotFound", None,
                               EntryPath(input.cwd, input.entry))
          /\ UNCHANGED <<child, timeout>>
     ELSE /\ promise' = Unsettled("pending")
          /\ child' = [status |-> "running", exitCode |-> None]
          /\ timeout' = "armed"
  /\ UNCHANGED <<input, state, signals, forceKill, onceExit, clock, requests, chunks,
                 uncaught, first>>
  /\ UNCHANGED stdoutTail
  /\ UNCHANGED lifeVars
  /\ UNCHANGED aggVars
  /\ UNCHANGED repVars

\* Mutant: the timeout asks the child to terminate instead of killing it.
TimeoutSignal_Soft == "SIGTERM"

\* child.kill('SIGKILL') of the timeout callback
TimeoutSignal == "SIGKILL"

\* The callback of setTimeout(..., TIMEOUT_MS).
timeoutFires ==
  /\ ~uncaught
  /\ timeout = "armed"
  /\ clock = TIMEOUT_MS
  /\ signals' = Kill(TimeoutSignal)
  /\ promise' = Reject(promise, "Timeout", None, <<>>)
  /\ timeout' = "fired"
  /\ UNCHANGED <<input, state, child, forceKill, onceExit, clock, requests, chunks,
                 uncaught, first>>
  /\ UNCHANGED stdoutTail
  /\ UNCHANGED lifeVars
  /\ UNCHANGED aggVars
  /\ UNCHANGED repVars

\* The callback of setTimeout(() => child.kill('SIGKILL'), 500) of complete().
forceKillFires ==
  /\ ~uncaught
  /\ forceKill.status = "armed"
  /\ clock = forceKill.at
  /\ signals' = Kill("SIGKILL")
  /\ forceKill' = [status |-> "fired", at |-> 0]
  /\ UNCHANGED <<input, promise, state, child, timeout, onceExit, clock, requests, chunks,
                 uncaught, first>>
  /\ UNCHANGED stdoutTail
  /\ UNCHANGED lifeVars
  /\ UNCHANGED aggVars
  /\ UNCHANGED repVars

\* child.stdout 'data' handler. child.send on a closed channel emits 'error'
\* on the child, which runs the 'error' handler.
onStdout(output) ==
  /\ ~uncaught
  /\ child.status # "none"
  /\ chunks < MaxChunks
  /\ chunks' = chunks + 1
  /\ stdoutTail' = LastPieces(stdoutTail \o output, Len(Marker) - 1)
  /\ IF ~Includes(output, Marker)
     THEN UNCHANGED <<requests, timeout, promise>>
     ELSE IF child.status = "running"
     THEN /\ requests' = requests + 1
          /\ UNCHANGED <<timeout, promise>>
     ELSE /\ timeout' = ClearTimeout(timeout)
          /\ promise' = Reject(promise, "ChildError", None, <<>>)
          /\ UNCHANGED requests
  /\ UNCHANGED <<input, state, child, signals, forceKill, onceExit, clock, uncaught, first>>
  /\ UNCHANGED lifeVars
  /\ UNCHANGED aggVars
  /\ UNCHANGED repVars

\* msg.isAdonisJS === true && msg.environment === 'web' && msg.duration
IsReady(msg) == msg.isAdonisJS /\ msg.environment = "web" /\ msg.duration # None

\* Reading a property of null, or Object.entries(undefined), throws a TypeError.
MessageThrows(msg) ==
  \/ msg.js = "null"
  \/ /\ ~IsReady(msg)
     /\ msg.type = "results"
     /\ (msg.data = None \/ msg.data[1].loadTimes = None)

\* child 'message' handler; a results message stores its data and calls complete().
onMessage(msg) ==
  /\ ~uncaught
  /\ child.status # "none"
  /\ IF MessageThrows(msg)
     THEN /\ uncaught' = TRUE
          /\ UNCHANGED <<state, timeout, signals, forceKill, onceExit, first>>
     ELSE IF IsReady(msg)
     THEN /\ state' = [state EXCEPT !.bootDuration = msg.duration]
          /\ UNCHANGED <<uncaught, timeout, signals, forceKill, onceExit, first>>
     ELSE IF msg.type = "results"
     THEN LET data == msg.data[1]
              stored == [state EXCEPT !.loadTimes = data.loadTimes[1],
                                      !.parents = OrElse(data.parents, EmptyMap),
                                      !.providerPhases = OrElse(data.providerPhases, EmptyMap)]
          IN  IF state.done
              THEN /\ state' = stored
                   /\ UNCHANGED <<uncaught, timeout, signals, forceKill, onceExit, first>>
              ELSE /\ state' = [stored EXCEPT !.done = TRUE]
                   /\ timeout' = ClearTimeout(timeout)
                   /\ signals' = Kill("SIGTERM")
                   /\ forceKill' = [status |-> "armed", at |-> clock + GRACE_MS]
                   /\ onceExit' = TRUE
                   /\ first' = [seen |-> TRUE,
                                data |-> Some([loadTimes |-> stored.loadTimes,
                                               parents |-> stored.parents,
                                               providerPhases |-> stored.providerPhases])]
                   /\ UNCHANGED uncaught
     ELSE UNCHANGED <<state, uncaught, timeout, signals, forceKill, onceExit, first>>
  /\ UNCHANGED <<input, promise, child, clock, requests, chunks>>
  /\ UNCHANGED stdoutTail
  /\ UNCHANGED lifeVars
  /\ UNCHANGED aggVars
  /\ UNCHANGED repVars

\* child 'error' handler: the child could not be spawned, killed or sent to.
onError ==
  /\ ~uncaught
  /\ child.status # "none"
  /\ timeout' = ClearTimeout(timeout)
  /\ promise' = Reject(promise, "ChildError", None, <<>>)
  /\ UNCHANGED <<input, state, child, signals, forceKill, onceExit, clock, requests, chunks,
                 uncaught, first>>
  /\ UNCHANGED stdoutTail
  /\ UNCHANGED lifeVars
  /\ UNCHANGED aggVars
  /\ UNCHANGED repVars

\* Mutant: only null and 0 are accepted exit codes.
IsIgnoredExit_ZeroOnly(code) == code = None \/ code = Some(0)

\* code === null || code === 0 || code === 137 || code === 143
IsIgnoredExit(code) == code = None \/ code = Some(0) \/ code = Some(137) \/ code = Some(143)

\* child 'exit' event: the permanent 'exit' handler runs, then the
\* once('exit') handler registered by complete().
onExit(code) ==
  /\ ~uncaught
  /\ child.status = "running"
  /\ child' = [status |-> "exited", exitCode |-> code]
  /\ IF ~IsIgnoredExit(code) /\ ~state.done
     THEN /\ timeout' = ClearTimeout(timeout)
          /\ promise' = Reject(promise, "ChildProcess", code, <<>>)
          /\ UNCHANGED <<forceKill, onceExit>>
     ELSE IF onceExit
     THEN /\ forceKill' = [status |-> ClearTimeout(forceKill.status), at |-> 0]
          /\ promise' = Resolve(promise, state)
          /\ onceExit' = FALSE
          /\ UNCHANGED timeout
     ELSE UNCHANGED <<timeout, promise, forceKill, onceExit>>
  /\ UNCHANGED <<input, state, signals, clock, requests, chunks, uncaught, first>>
  /\ UNCHANGED stdoutTail
  /\ UNCHANGED lifeVars
  /\ UNCHANGED aggVars
  /\ UNCHANGED repVars

\* Time passes, never beyond the deadline of an armed timer: half the timeout
\* at a time up to the timeout, half the grace window at a time while the
\* force-kill timer is armed.
ClockTick ==
  /\ ~uncaught
  /\ child.status # "none"
  /\ \/ /\ forceKill.status # "armed"
        /\ clock < TIMEOUT_MS
        /\ clock' = clock + (TIMEOUT_MS \div 2)
     \/ /\ forceKill.status = "armed"
        /\ clock < forceKill.at
        /\ clock' = clock + (GRACE_MS \div 2)
  /\ UNCHANGED <<input, promise, state, child, signals, timeout, forceKill, onceExit,
                 requests, chunks, uncaught, first>>
  /\ UNCHANGED stdoutTail
  /\ UNCHANGED lifeVars
  /\ UNCHANGED aggVars
  /\ UNCHANGED repVars

-----------------------------------------------------------------------------
(* Import Observer (loader hooks) and In-Process Aggregator (loader).      *)

Urls == {"file:///app/a.ts", "file:///app/b.ts"}

\* What a resolve or load hook is called with: a file: url or a builtin.
Specifiers == Urls \cup {"node:fs"}

\* Mutant: every URL counts as a local file.
IsFileUrl_Any(url) == TRUE

\* url.startsWith('file://')
IsFileUrl(url) == url \in Urls

LoadTimes == {10, 20}

Formats == {"module", "commonjs"}

\* { type: 'parent', child, parent } and { type: 'timing', url, loadTime }
ParentMessage(childUrl, parentUrl) ==
  [type |-> "parent", child |-> childUrl, parent |-> parentUrl, url |-> "", loadTime |-> 0]

TimingMessage(url, loadTime) ==
  [type |-> "timing", child |-> "", parent |-> "", url |-> url, loadTime |-> loadTime]

InitAggregatorVars ==
  /\ port = FALSE
  /\ pendingMessages = <<>>
  /\ flushScheduled = FALSE
  /\ immediates = 0
  /\ channel = <<>>
  /\ loadTimes = EmptyMap
  /\ parents = EmptyMap
  /\ sent = <<>>
  /\ emitted = {}
  /\ returned = None

\* initialize(data): port = data.port
initialize ==
  /\ ~port
  /\ port' = TRUE
  /\ UNCHANGED <<pendingMessages, flushScheduled, immediates, channel, loadTimes, parents, sent,
                  emitted>>
  /\ UNCHANGED returned
  /\ UNCHANGED <<lifeVars, ctlVars>>
  /\ UNCHANGED repVars

\* Mutant: every queued message schedules a flush.
schedule_Always == immediates + 1

\* if (!flushScheduled) { flushScheduled = true; setImmediate(flush) }
schedule == IF flushScheduled THEN immediates ELSE immediates + 1

\* queueMessage(msg): push, and schedule a flush unless one is scheduled.
queueMessage(msg) ==
  /\ pendingMessages' = Append(pendingMessages, msg)
  /\ flushScheduled' = TRUE
  /\ immediates' = schedule
  /\ emitted' = emitted \cup {msg}

\* The hooks run once register() has initialized them; the model bounds the
\* number of observations they queue and lets them queue each one once.
CanHook == port /\ Cardinality(emitted) < MaxHookCalls

\* What resolve does to the queue, after nextResolve returned a result with
\* this url.
observeResolve(url, parentURL) ==
  /\ CanHook
  /\ IF parentURL # None /\ IsFileUrl(url)
     THEN ParentMessage(url, parentURL[1]) \notin emitted
          /\ queueMessage(ParentMessage(url, parentURL[1]))
     ELSE UNCHANGED <<pendingMessages, flushScheduled, immediates, emitted>>
  /\ UNCHANGED <<port, channel, loadTimes, parents, sent>>
  /\ UNCHANGED <<lifeVars, ctlVars>>
  /\ UNCHANGED repVars

\* resolve(specifier, context, nextResolve) as the aggregator sees it: the
\* value it returns to the module loader is not followed.
resolveHook(url, parentURL) == observeResolve(url, parentURL) /\ UNCHANGED returned

\* resolve(specifier, context, nextResolve): returns the result of nextResolve.
resolve(url, parentURL) ==
  /\ observeResolve(url, parentURL)
  /\ returned' = Some([hook |-> "resolve", result |-> url, timed |-> FALSE])

\* What load does to the queue, after nextLoad returned a result of the format.
observeLoad(url, format, loadTime) ==
  /\ CanHook
  /\ IF IsFileUrl(url) /\ format = "module"
     THEN TimingMessage(url, loadTime) \notin emitted
          /\ queueMessage(TimingMessage(url, loadTime))
     ELSE UNCHANGED <<pendingMessages, flushScheduled, immediates, emitted>>
  /\ UNCHANGED <<port, channel, loadTimes, parents, sent>>
  /\ UNCHANGED <<lifeVars, ctlVars>>
  /\ UNCHANGED repVars

\* load(url, context, nextLoad) as the aggregator sees it.
loadHook(url, format, loadTime) == observeLoad(url, format, loadTime) /\ UNCHANGED returned

\* load(url, context, nextLoad): the call of nextLoad is timed for file:// URLs
\* only, and the hook returns the result of nextLoad.
load(url, format, loadTime) ==
  /\ observeLoad(url, format, loadTime)
  /\ returned' = Some([hook |-> "load", result |-> format, timed |-> IsFileUrl(url)])

\* flush(), the setImmediate callback: posts the queued messages as one batch.
flush ==
  /\ immediates > 0
  /\ immediates' = immediates - 1
  /\ flushScheduled' = FALSE
  /\ IF pendingMessages # <<>> /\ port
     THEN /\ channel' = Append(channel, pendingMessages)
          /\ pendingMessages' = <<>>
     ELSE UNCHANGED <<channel, pendingMessages>>
  /\ UNCHANGED <<port, loadTimes, parents, sent, emitted>>
  /\ UNCHANGED returned
  /\ UNCHANGED <<lifeVars, ctlVars>>
  /\ UNCHANGED repVars

\* for (const m of msg.messages): parents.set / loadTimes.set
RECURSIVE StoreParents(_, _)
StoreParents(map, messages) ==
  IF messages = <<>> THEN map
  ELSE LET m == Head(messages)
       IN  StoreParents(IF m.type = "parent" THEN MapSet(map, m.child, m.parent) ELSE map,
                        Tail(messages))

\* Mutant: a URL keeps the first load time observed for it.
RECURSIVE StoreTimings_KeepFirst(_, _)
StoreTimings_KeepFirst(map, messages) ==
  IF messages = <<>> THEN map
  ELSE LET m == Head(messages)
       IN  StoreTimings_KeepFirst(IF m.type = "timing" /\ ~MapHas(map, m.url)
                                  THEN MapSet(map, m.url, m.loadTime) ELSE map,
                                  Tail(messages))

RECURSIVE StoreTimings(_, _)
StoreTimings(map, messages) ==
  IF messages = <<>> THEN map
  ELSE LET m == Head(messages)
       IN  StoreTimings(IF m.type = "timing" THEN MapSet(map, m.url, m.loadTime) ELSE map,
                        Tail(messages))

\* port1 'message' handler of the loader, for the oldest batch in flight.
portMessage ==
  /\ channel # <<>>
  /\ parents' = StoreParents(parents, Head(channel))
  /\ loadTimes' = StoreTimings(loadTimes, Head(channel))
  /\ channel' = Tail(channel)
  /\ UNCHANGED <<port, pendingMessages, flushScheduled, immediates, sent, emitted>>
  /\ UNCHANGED returned
  /\ UNCHANGED <<lifeVars, ctlVars>>
  /\ UNCHANGED repVars

\* [...map]: the keys of a Map, each once.
RECURSIVE MapKeys(_)
MapKeys(keys) ==
  IF keys = {} THEN <<>>
  ELSE LET k == CHOOSE x \in keys : TRUE IN <<k>> \o MapKeys(keys \ {k})

\* buildResults(state, cwd): [...state.loadTimes].map(([url, loadTime]) =>
\* ({ resolvedUrl: url, loadTime, parentUrl: state.parents.get(url) }))
buildResults(loadTimesMap, parentsMap) ==
  LET keys == MapKeys(DOMAIN loadTimesMap)
  IN  [i \in DOMAIN keys |->
         [resolvedUrl |-> keys[i],
          loadTime |-> loadTimesMap[keys[i]],
          parentUrl |-> IF MapHas(parentsMap, keys[i]) THEN Some(parentsMap[keys[i]])
                        ELSE None]]

\* t.phase || 0
PhaseTime(t, phase) == IF MapHas(t, phase) THEN t[phase] ELSE 0

\* The providers array of the payload, by provider name.
Providers(phasesMap) ==
  [name \in DOMAIN phasesMap |->
     LET t == phasesMap[name]
     IN  [name |-> name,
          registerTime |-> PhaseTime(t, "register"),
          bootTime |-> PhaseTime(t, "boot"),
          startTime |-> PhaseTime(t, "start"),
          readyTime |-> PhaseTime(t, "ready"),
          shutdownTime |-> PhaseTime(t, "shutdown"),
          totalTime |-> PhaseTime(t, "register") + PhaseTime(t, "boot")
                        + PhaseTime(t, "start") + PhaseTime(t, "ready")]]

\* Mutant: the payload does not carry the maps.
ResultsPayload_Blank ==
  [loadTimes |-> EmptyMap, parents |-> EmptyMap, providers |-> EmptyMap, times |-> None]

\* The data of the results message.
ResultsPayload ==
  [loadTimes |-> loadTimes, parents |-> parents, providers |-> Providers(providerPhases),
   times |-> None]

\* const profileStartTime = performance.now(), at the start of the process
profileStartTime == 0

\* The data of the results message of the loader that also reports when the
\* profile started and when the results were taken.
ResultsPayloadTimed ==
  [loadTimes |-> loadTimes, parents |-> parents, providers |-> Providers(providerPhases),
   times |-> Some([startTime |-> profileStartTime, endTime |-> now])]

\* Types of the messages the parent (or anyone) sends to the profiled process.
RequestTypes == {"getResults", "results", "ping"}

\* A process runs one loader: all its replies come from the same handler.
SameLoader(timed) == \A k \in DOMAIN sent : (sent[k].times # None) = timed

\* process 'message' handler of the loader.
processMessage(type) ==
  /\ Len(sent) < MaxReplies
  /\ SameLoader(FALSE)
  /\ IF type # "getResults"
     THEN UNCHANGED sent
     ELSE sent' = Append(sent, ResultsPayload)
  /\ UNCHANGED <<port, pendingMessages, flushScheduled, immediates, channel, loadTimes, parents,
                  emitted>>
  /\ UNCHANGED returned
  /\ UNCHANGED <<lifeVars, ctlVars>>
  /\ UNCHANGED repVars

\* process 'message' handler of the loader that reports startTime and endTime.
processMessageTimed(type) ==
  /\ Len(sent) < MaxReplies
  /\ SameLoader(TRUE)
  /\ IF type # "getResults"
     THEN UNCHANGED sent
     ELSE sent' = Append(sent, ResultsPayloadTimed)
  /\ UNCHANGED <<port, pendingMessages, flushScheduled, immediates, channel, loadTimes, parents,
                  emitted>>
  /\ UNCHANGED returned
  /\ UNCHANGED <<lifeVars, ctlVars>>
  /\ UNCHANGED repVars

\* performance.now() advances in the profiled process.
elapse ==
  /\ now < MaxTime
  /\ now' = now + 1
  /\ UNCHANGED <<providerStarts, asyncCalls, providerPhases, timers, inv>>
  /\ UNCHANGED <<ctlVars, aggVars>>
  /\ UNCHANGED repVars

-----------------------------------------------------------------------------
(* Reporting: ProfileCollector and buildDependencyTree.                    *)

MaxModules == 3

MaxDuration == 2

\* Modules opened one from another in the x-ray view.
MaxHistory == 3

\* A url is the sequence of its segments: the scheme, then the path split at '/'.
KernelUrl == <<"file:", "app", "start", "kernel.ts">>
NodeFsUrl == <<"node:", "fs">>
CoreUrl == <<"file:", "app", "node_modules", "@adonisjs", "core", "index.js">>
LuxonUrl == <<"file:", "app", "node_modules", "luxon", "index.js">>

ModuleUrls == {KernelUrl, NodeFsUrl, CoreUrl, LuxonUrl}

\* Two files of one package, and a package in the nested store of pnpm.
LodashGetUrl == <<"file:", "app", "node_modules", "lodash", "get.js">>
LodashSetUrl == <<"file:", "app", "node_modules", "lodash", "set.js">>
PnpmLuxonUrl == <<"file:", "app", "node_modules", ".pnpm", "luxon@3.4.4", "node_modules",
                  "luxon", "index.js">>

PackageUrls == {KernelUrl, CoreUrl, LuxonUrl, LodashGetUrl, LodashSetUrl, PnpmLuxonUrl}

\* Distinct powers of two: a sum of load times tells which modules it counts.
MeasuredTime(url) ==
  CASE url = KernelUrl -> 1
    [] url = NodeFsUrl -> 2
    [] url = CoreUrl -> 4
    [] url = LuxonUrl -> 8
    [] url = LodashGetUrl -> 16
    [] url = LodashSetUrl -> 32
    [] url = PnpmLuxonUrl -> 64

\* buildResults: one ModuleTiming per entry of state.loadTimes, its parent looked
\* up in state.parents, and no subtreeTime.
ModuleTiming(url, parentUrl) ==
  [resolvedUrl |-> url,
   loadTime |-> MeasuredTime(url),
   parentUrl |-> parentUrl,
   subtreeTime |-> None]

ParentUrls == {None} \cup {Some(u) : u \in ModuleUrls}

\* The keys of a Map are distinct, its order is kept.
UrlLists(n, urls) == {u \in [1..n -> urls] : \A i, j \in 1..n : u[i] = u[j] => i = j}

\* The module list of a list of urls and of their parents.
ModuleList(urls, parentUrls) ==
  [i \in DOMAIN urls |-> ModuleTiming(urls[i], parentUrls[i])]

\* useState('modules'), useState([]), useState(null)
InitNavigationVars ==
  /\ view = "modules"
  /\ moduleHistory = <<>>
  /\ selectedProvider = None
  /\ exited = FALSE

\* No collector yet, nothing filtered, no tree.
InitReportVars ==
  /\ stage = "input"
  /\ filtered = <<>>
  /\ tree = None
  /\ summary = None
  /\ groups = None
  /\ providers = None
  /\ chain = None
  /\ hasProviders = FALSE
  /\ InitNavigationVars

\* No profile result to report on.
NoModules == <<>>

\* byUrl = new Map(modules.map(m => [m.resolvedUrl, m])): the last entry wins.
byUrl(mods, url) ==
  IF \E i \in DOMAIN mods : mods[i].resolvedUrl = url
  THEN Some(CHOOSE i \in DOMAIN mods :
              /\ mods[i].resolvedUrl = url
              /\ \A j \in DOMAIN mods : mods[j].resolvedUrl = url => j <= i)
  ELSE None

\* children.get(url) || []: the urls of the modules naming url as their parent, in
\* list order.
RECURSIVE childrenOf_FirstOnly(_, _, _)
childrenOf_FirstOnly(mods, url, i) ==
  IF i > Len(mods) THEN <<>>
  ELSE IF mods[i].parentUrl = Some(url) THEN <<mods[i].resolvedUrl>>
  ELSE childrenOf_FirstOnly(mods, url, i + 1)

RECURSIVE childrenOf(_, _, _)
childrenOf(mods, url, i) ==
  IF i > Len(mods) THEN <<>>
  ELSE (IF mods[i].parentUrl = Some(url) THEN <<mods[i].resolvedUrl>> ELSE <<>>)
       \o childrenOf(mods, url, i + 1)

\* compute(url, seen), run on top of the calls made so far: run.total is what
\* they returned in sum, run.seen the seen set they left.
RECURSIVE compute(_, _, _)
RECURSIVE computeChildren(_, _, _)
compute(mods, url, run) ==
  IF url \in run.seen THEN run
  ELSE IF byUrl(mods, url) = None THEN [run EXCEPT !.seen = @ \cup {url}]
  ELSE computeChildren(mods, childrenOf(mods, url, 1),
                       [total |-> run.total + mods[byUrl(mods, url)[1]].loadTime,
                        seen |-> run.seen \cup {url}])

\* for (const child of children.get(url) || []) total += compute(child, seen)
computeChildren(mods, kids, run) ==
  IF kids = <<>> THEN run
  ELSE computeChildren(mods, Tail(kids), compute(mods, Head(kids), run))

\* The seen set of each top-level computation.
FreshSeen == {}

\* One seen set for all the top-level computations, none per module.
RECURSIVE SharedSeenFrom(_, _, _)
SharedSeenFrom(mods, i, seen) ==
  IF i > Len(mods) THEN <<>>
  ELSE LET run == compute(mods, mods[i].resolvedUrl, [total |-> 0, seen |-> seen])
       IN <<[mods[i] EXCEPT !.subtreeTime = Some(run.total)]>>
          \o SharedSeenFrom(mods, i + 1, run.seen)

populateSubtreeTimes_SharedSeen(mods) == SharedSeenFrom(mods, 1, FreshSeen)

populateSubtreeTimes(mods) ==
  [i \in DOMAIN mods |->
     [mods[i] EXCEPT !.subtreeTime =
        Some(compute(mods, mods[i].resolvedUrl, [total |-> 0, seen |-> FreshSeen]).total)]]

\* Every non-empty list is computed over.
NeedsSubtreeTimes_Always(mods) == Len(mods) > 0

\* The constructor's guard.
NeedsSubtreeTimes(mods) == Len(mods) > 0 /\ mods[1].subtreeTime = None

\* new ProfileCollector(modules): the effect on the module objects.
ProfileCollector(mods) ==
  IF NeedsSubtreeTimes(mods) THEN populateSubtreeTimes(mods) ELSE mods

time(m) == OrElse(m.subtreeTime, m.loadTime)

\* url.includes(a + '/' + b + '/')
IncludesPath(url, path) ==
  \E k \in 1..Len(url) :
    /\ k + Len(path) <= Len(url)
    /\ \A j \in 1..Len(path) : url[k + j - 1] = path[j]

IsNodeBuiltin(url) == Len(url) > 0 /\ url[1] = "node:"

\* The package store is looked for before the framework scope.
moduleCategory_StoreFirst(url) ==
  IF IsNodeBuiltin(url) THEN "node"
  ELSE IF IncludesPath(url, <<"node_modules">>) THEN "node_modules"
  ELSE IF IncludesPath(url, <<"node_modules", "@adonisjs">>) THEN "adonis"
  ELSE "user"

moduleCategory(url) ==
  IF IsNodeBuiltin(url) THEN "node"
  ELSE IF IncludesPath(url, <<"node_modules", "@adonisjs">>) THEN "adonis"
  ELSE IF IncludesPath(url, <<"node_modules">>) THEN "node_modules"
  ELSE "user"

Thresholds == {0, 4}

Configs == [threshold : Thresholds, includeNodeModules : BOOLEAN]

\* A module at the threshold is dropped too.
Keeps_AboveThreshold(m, config) ==
  /\ time(m) > config.threshold
  /\ ~IsNodeBuiltin(m.resolvedUrl)
  /\ config.includeNodeModules \/ moduleCategory(m.resolvedUrl) \notin {"node_modules", "adonis"}

Keeps(m, config) ==
  /\ ~(time(m) < config.threshold)
  /\ ~IsNodeBuiltin(m.resolvedUrl)
  /\ config.includeNodeModules \/ moduleCategory(m.resolvedUrl) \notin {"node_modules", "adonis"}

\* this.#modules.filter(...): the kept objects, by index, in list order.
RECURSIVE filterFrom(_, _, _)
filterFrom(mods, config, i) ==
  IF i > Len(mods) THEN <<>>
  ELSE (IF Keeps(mods[i], config) THEN <<i>> ELSE <<>>) \o filterFrom(mods, config, i + 1)

\* The objects of a list of indexes.
Objects(mods, list) == [k \in DOMAIN list |-> mods[list[k]]]

\* Writes the objects of a list of indexes back.
Store(mods, list, objs) ==
  [i \in DOMAIN mods |->
     IF \E k \in DOMAIN list : list[k] = i
     THEN objs[CHOOSE k \in DOMAIN list : list[k] = i]
     ELSE mods[i]]

\* Mutant: the shutdown time is part of the total.
totalTime_WithShutdown(t) ==
  PhaseTime(t, "register") + PhaseTime(t, "boot") + PhaseTime(t, "start")
  + PhaseTime(t, "ready") + PhaseTime(t, "shutdown")

\* (t.register || 0) + (t.boot || 0) + (t.start || 0) + (t.ready || 0)
totalTime(t) ==
  PhaseTime(t, "register") + PhaseTime(t, "boot") + PhaseTime(t, "start")
  + PhaseTime(t, "ready")

\* buildProviderTimings(phases): one ProviderTiming per entry, by name.
buildProviderTimings(phases) ==
  [name \in DOMAIN phases |->
     [name |-> name,
      registerTime |-> PhaseTime(phases[name], "register"),
      bootTime |-> PhaseTime(phases[name], "boot"),
      startTime |-> PhaseTime(phases[name], "start"),
      readyTime |-> PhaseTime(phases[name], "ready"),
      shutdownTime |-> PhaseTime(phases[name], "shutdown"),
      totalTime |-> totalTime(phases[name])]]

\* const collector = new ProfileCollector(modules, state.providerPhases)
construct ==
  /\ stage = "input"
  /\ modules' = ProfileCollector(modules)
  /\ providers' = Some(buildProviderTimings(state.providerPhases))
  /\ stage' = "collected"
  /\ UNCHANGED <<filtered, tree, summary, groups>>
  /\ UNCHANGED xrayVars
  /\ UNCHANGED <<lifeVars, ctlVars, aggVars>>

\* const collector = new ProfileCollector(result.modules, result.providers)
\* const filtered = collector.filterModules(config)
filterModules(config) ==
  /\ stage = "collected"
  /\ tree = None
  /\ summary = None
  /\ modules' = ProfileCollector(modules)
  /\ filtered' = filterFrom(modules', config, 1)
  /\ stage' = "filtered"
  /\ UNCHANGED <<tree, summary, groups, providers>>
  /\ UNCHANGED xrayVars
  /\ UNCHANGED <<lifeVars, ctlVars, aggVars>>

\* new ProfileCollector(filtered): the filtered list holds the same objects.
constructFiltered ==
  /\ stage = "filtered"
  /\ modules' = Store(modules, filtered, ProfileCollector(Objects(modules, filtered)))
  /\ stage' = "reported"
  /\ UNCHANGED <<filtered, tree, summary, groups, providers>>
  /\ UNCHANGED xrayVars
  /\ UNCHANGED <<lifeVars, ctlVars, aggVars>>

\* modules.reduce((sum, m) => sum + this.#time(m), 0), over the first n modules.
RECURSIVE sumTime(_, _)
sumTime(mods, n) == IF n = 0 THEN 0 ELSE sumTime(mods, n - 1) + time(mods[n])

\* grouped[category]?.length ?? 0
groupLength(mods, category) ==
  Cardinality({i \in DOMAIN mods : moduleCategory(mods[i].resolvedUrl) = category})

\* providers.reduce((sum, p) => sum + p.totalTime, 0)
RECURSIVE sumTotalTime(_, _)
sumTotalTime(rows, names) ==
  IF names = {} THEN 0
  ELSE LET name == CHOOSE n \in names : TRUE
       IN rows[name].totalTime + sumTotalTime(rows, names \ {name})

\* collector.computeSummary(), for a collector over mods and provider rows.
ProfileSummary(mods, rows) ==
  [totalModules |-> Len(mods),
   userModules |-> groupLength(mods, "user"),
   nodeModules |-> groupLength(mods, "node_modules"),
   adonisModules |-> groupLength(mods, "adonis"),
   totalModuleTime |-> sumTime(mods, Len(mods)),
   totalProviderTime |-> sumTotalTime(rows, DOMAIN rows)]

\* collectResults: the summary of the collector that buildResults made over
\* the modules and state.providerPhases (its rows were built by the constructor).
computeSummary ==
  /\ stage = "collected"
  /\ tree = None
  /\ summary = None
  /\ summary' = Some(ProfileSummary(modules, providers[1]))
  /\ UNCHANGED <<modules, stage, filtered, tree, groups, providers>>
  /\ UNCHANGED xrayVars
  /\ UNCHANGED <<lifeVars, ctlVars, aggVars>>

\* getEffectiveTime: execTime ?? loadTime, and buildResults sets no execTime.
getEffectiveTime(m) == m.loadTime

\* Array.prototype.sort with (a, b) => T[b] - T[a]: stable, slowest first.
InsertByTime(sorted, x, T) ==
  LET k == Cardinality({j \in DOMAIN sorted : T[sorted[j]] >= T[x]})
  IN SubSeq(sorted, 1, k) \o <<x>> \o SubSeq(sorted, k + 1, Len(sorted))

RECURSIVE SortByTime(_, _, _)
SortByTime(list, T, n) ==
  IF n = 0 THEN <<>> ELSE InsertByTime(SortByTime(list, T, n - 1), list[n], T)

\* Only the modules without a parentUrl get a key.
RECURSIVE keysFrom_Parentless(_, _)
keysFrom_Parentless(mods, i) ==
  IF i > Len(mods) THEN <<>>
  ELSE (IF mods[i].parentUrl = None THEN <<mods[i].resolvedUrl>> ELSE <<>>)
       \o keysFrom_Parentless(mods, i + 1)

\* nodeMap.values(): the urls in insertion order, a key set again keeps its place.
RECURSIVE keysFrom(_, _)
keysFrom(mods, i) ==
  IF i > Len(mods) THEN <<>>
  ELSE LET url == mods[i].resolvedUrl
       IN (IF \E j \in 1..(i - 1) : mods[j].resolvedUrl = url THEN <<>> ELSE <<url>>)
          \o keysFrom(mods, i + 1)

\* First pass: one node per key, the timing of the last module with that url.
createNodes(mods) ==
  [url \in Range(keysFrom(mods, 1)) |->
     [timing |-> mods[byUrl(mods, url)[1]], children |-> <<>>, parent |-> None, depth |-> 0]]

HasMatchedParent(nodeMap, url) ==
  /\ nodeMap[url].timing.parentUrl # None
  /\ nodeMap[url].timing.parentUrl[1] \in DOMAIN nodeMap

\* The child is pushed, its back-reference is not set.
RECURSIVE attach_NoBackReference(_, _)
attach_NoBackReference(nodeMap, keys) ==
  IF keys = <<>> THEN nodeMap
  ELSE LET url == Head(keys)
           parentUrl == nodeMap[url].timing.parentUrl[1]
       IN IF HasMatchedParent(nodeMap, url)
          THEN attach_NoBackReference([nodeMap EXCEPT ![parentUrl].children = Append(@, url)],
                                      Tail(keys))
          ELSE attach_NoBackReference(nodeMap, Tail(keys))

\* Second pass: attach each node to the node of its parentUrl.
RECURSIVE attach(_, _)
attach(nodeMap, keys) ==
  IF keys = <<>> THEN nodeMap
  ELSE LET url == Head(keys)
           parentUrl == nodeMap[url].timing.parentUrl[1]
           pushed == [nodeMap EXCEPT ![parentUrl].children = Append(@, url)]
       IN IF HasMatchedParent(nodeMap, url)
          THEN attach([pushed EXCEPT ![url].parent = Some(parentUrl)], Tail(keys))
          ELSE attach(nodeMap, Tail(keys))

RECURSIVE setDepths(_, _, _)
RECURSIVE setDepthsOfChildren(_, _, _)

\* Mutant: the children get the depth of their parent.
setDepths_Flat(run, url, depth) ==
  IF url \in run.seen THEN run
  ELSE setDepthsOfChildren([nodeMap |-> [run.nodeMap EXCEPT ![url].depth = depth],
                            seen |-> run.seen \cup {url}],
                           run.nodeMap[url].children, depth)

\* setDepths(node, depth, seen): run.nodeMap holds the nodes and run.seen the
\* seen set, before and after the call.
setDepths(run, url, depth) ==
  IF url \in run.seen THEN run
  ELSE setDepthsOfChildren([nodeMap |-> [run.nodeMap EXCEPT ![url].depth = depth],
                            seen |-> run.seen \cup {url}],
                           run.nodeMap[url].children, depth + 1)

\* for (const child of node.children) setDepths(child, depth + 1, seen)
setDepthsOfChildren(run, kids, depth) ==
  IF kids = <<>> THEN run
  ELSE setDepthsOfChildren(setDepths(run, Head(kids), depth), Tail(kids), depth)

\* Third pass: the nodes without a parent are the roots and get their depths set.
RECURSIVE findRoots(_, _, _)
findRoots(nodeMap, keys, roots) ==
  IF keys = <<>> THEN [nodeMap |-> nodeMap, roots |-> roots]
  ELSE IF nodeMap[Head(keys)].parent = None
  THEN findRoots(setDepths([nodeMap |-> nodeMap, seen |-> FreshSeen], Head(keys), 0).nodeMap,
                 Tail(keys), Append(roots, Head(keys)))
  ELSE findRoots(nodeMap, Tail(keys), roots)

buildDependencyTree(mods) ==
  LET keys == keysFrom(mods, 1)
      rooted == findRoots(attach(createNodes(mods), keys), keys, <<>>)
      T == [url \in DOMAIN rooted.nodeMap |-> getEffectiveTime(rooted.nodeMap[url].timing)]
      sortedChildren ==
        [url \in DOMAIN rooted.nodeMap |->
           [rooted.nodeMap[url] EXCEPT !.children = SortByTime(@, T, Len(@))]]
  IN [nodeMap |-> sortedChildren,
      roots |-> rooted.roots,
      sortedByTime |-> SortByTime(keys, T, Len(keys))]

\* The tree view builds the tree of the modules of the profile result.
buildTree ==
  /\ stage = "collected"
  /\ tree = None
  /\ summary = None
  /\ tree' = Some(buildDependencyTree(modules))
  /\ UNCHANGED <<modules, stage, filtered, summary, groups, providers>>
  /\ UNCHANGED xrayVars
  /\ UNCHANGED <<lifeVars, ctlVars, aggVars>>

RECURSIVE walkParents(_, _, _, _)

\* Mutant: the ancestors are pushed at the end of the chain.
walkParents_Push(nodeMap, current, seen, list) ==
  IF current = None \/ current[1] \in seen THEN list
  ELSE walkParents(nodeMap, nodeMap[current[1]].parent, seen \cup {current[1]},
                   Append(list, current[1]))

\* while (current && !seen.has(current)) { seen.add(current);
\* chain.unshift(current); current = current.parent }
walkParents(nodeMap, current, seen, list) ==
  IF current = None \/ current[1] \in seen THEN list
  ELSE walkParents(nodeMap, nodeMap[current[1]].parent, seen \cup {current[1]},
                   <<current[1]>> \o list)

\* getImportChain(node): the nodes of the chain, by url.
getImportChain(nodeMap, url) == walkParents(nodeMap, Some(url), {}, <<>>)

\* The module view computes the import chain of the node it shows.
showChain(url) ==
  /\ tree # None
  /\ chain = None
  /\ url \in DOMAIN tree[1].nodeMap
  /\ chain' = Some([node |-> url, list |-> getImportChain(tree[1].nodeMap, url)])
  /\ UNCHANGED navVars
  /\ UNCHANGED <<modules, stage, filtered, tree, summary, groups, providers>>
  /\ UNCHANGED <<lifeVars, ctlVars, aggVars>>

-----------------------------------------------------------------------------
(* X-ray: navigation of XRayApp.                                           *)

\* const currentModule = moduleHistory.length > 0 ? last : null
currentModule == IF moduleHistory # <<>> THEN Some(moduleHistory[Len(moduleHistory)]) ELSE None

\* Mutant: going back empties the history.
slice_All(history) == <<>>

\* moduleHistory.slice(0, -1)
slice(history) == SubSeq(history, 1, Len(history) - 1)

\* The navigation leaves the profile and the other components alone.
NavigationFrame ==
  /\ UNCHANGED <<chain, hasProviders>>
  /\ UNCHANGED <<modules, stage, filtered, tree, summary, groups, providers>>
  /\ UNCHANGED <<lifeVars, ctlVars, aggVars>>

\* navigateToModule(node): setModuleHistory([...moduleHistory, node])
navigateToModule(node) ==
  /\ moduleHistory' = Append(moduleHistory, node)
  /\ UNCHANGED <<view, selectedProvider, exited>>

\* goBack(): closes the provider detail, else drops the current module.
goBack ==
  /\ IF selectedProvider # None
     THEN selectedProvider' = None /\ UNCHANGED moduleHistory
     ELSE IF Len(moduleHistory) > 0
     THEN moduleHistory' = slice(moduleHistory) /\ UNCHANGED selectedProvider
     ELSE UNCHANGED <<moduleHistory, selectedProvider>>
  /\ UNCHANGED <<view, exited>>

\* switchView(newView)
switchView(newView) ==
  /\ view' = newView
  /\ moduleHistory' = <<>>
  /\ selectedProvider' = None
  /\ UNCHANGED exited

\* The keys the terminal reports to useInput, and a key with no binding.
Keys == {"q", "leftArrow", "backspace", "delete", "escape", "tab", "upArrow"}

\* The useInput handler of XRayApp, for one key press.
keyPress(key) ==
  /\ ~exited
  /\ IF key = "q"
     THEN exited' = TRUE /\ UNCHANGED <<view, moduleHistory, selectedProvider>>
     ELSE IF key \in {"leftArrow", "backspace", "delete"}
     THEN IF selectedProvider # None \/ Len(moduleHistory) > 0
          THEN goBack
          ELSE UNCHANGED navVars
     ELSE IF key = "escape"
     THEN IF selectedProvider # None \/ Len(moduleHistory) > 0
          THEN goBack
          ELSE exited' = TRUE /\ UNCHANGED <<view, moduleHistory, selectedProvider>>
     ELSE IF key = "tab" /\ currentModule = None /\ selectedProvider = None
     THEN switchView(IF view = "modules" THEN "providers" ELSE "modules")
     ELSE UNCHANGED navVars
  /\ NavigationFrame

\* Which view XRayApp renders.
Rendered ==
  IF selectedProvider # None THEN "ProviderView"
  ELSE IF currentModule # None THEN "ModuleView"
  ELSE IF view = "providers" THEN "ProviderListView"
  ELSE "ListView"

\* Enter on a module of ListView (onSelect) or of ModuleView (onNavigate).
selectModule(node) ==
  /\ ~exited
  /\ Rendered \in {"ListView", "ModuleView"}
  /\ Len(moduleHistory) < MaxHistory
  /\ navigateToModule(node)
  /\ NavigationFrame

\* Enter on a provider of ProviderListView: setSelectedProvider(p)
selectProvider(name) ==
  /\ ~exited
  /\ Rendered = "ProviderListView"
  /\ hasProviders
  /\ selectedProvider' = Some(name)
  /\ UNCHANGED <<view, moduleHistory, exited>>
  /\ NavigationFrame

\* Enter on the switch item of ListView (shown when there are providers) or
\* of ProviderListView.
selectSwitch ==
  /\ ~exited
  /\ \/ Rendered = "ListView" /\ hasProviders /\ switchView("providers")
     \/ Rendered = "ProviderListView" /\ switchView("modules")
  /\ NavigationFrame

\* Enter on the Back item of ModuleView or ProviderView: onBack()
selectBack ==
  /\ ~exited
  /\ Rendered \in {"ModuleView", "ProviderView"}
  /\ goBack
  /\ NavigationFrame

\* The path segments that start with '@'.
Scopes == {"@adonisjs"}

\* url.match(/node_modules\/(@[^/]+\/[^/]+|[^/]+)/)?.[1] || 'app': the first
\* place where the pattern matches; a name is the sequence of its segments.
packageName(url) ==
  LET found == {k \in 1..(Len(url) - 1) : url[k] = "node_modules"}
      k == CHOOSE leftmost \in found : \A other \in found : leftmost <= other
  IN IF found = {} THEN <<"app">>
     ELSE IF url[k + 1] \in Scopes /\ k + 2 <= Len(url) THEN <<url[k + 1], url[k + 2]>>
     ELSE <<url[k + 1]>>

\* Object.groupBy, Object.entries: the keys in the order they were first seen.
RECURSIVE groupKeys(_, _)
groupKeys(mods, n) ==
  IF n = 0 THEN <<>>
  ELSE LET name == packageName(mods[n].resolvedUrl)
           before == groupKeys(mods, n - 1)
       IN IF name \in Range(before) THEN before ELSE Append(before, name)

\* The modules of a group, by index, in list order.
RECURSIVE groupOf(_, _, _)
groupOf(mods, name, i) ==
  IF i > Len(mods) THEN <<>>
  ELSE (IF packageName(mods[i].resolvedUrl) = name THEN <<i>> ELSE <<>>)
       \o groupOf(mods, name, i + 1)

\* collector.groupModulesByPackage(): the groups, slowest first, each with its
\* modules (by index), slowest first.
PackageGroups(mods) ==
  LET keys == groupKeys(mods, Len(mods))
      T == [i \in DOMAIN mods |-> time(mods[i])]
      group == [name \in Range(keys) |->
                  [name |-> name,
                   totalTime |-> sumTime(Objects(mods, groupOf(mods, name, 1)),
                                         Len(groupOf(mods, name, 1))),
                   modules |-> SortByTime(groupOf(mods, name, 1), T,
                                          Len(groupOf(mods, name, 1)))]]
      sorted == SortByTime(keys, [name \in Range(keys) |-> group[name].totalTime], Len(keys))
  IN [k \in DOMAIN sorted |-> group[sorted[k]]]

groupModulesByPackage ==
  /\ stage = "collected"
  /\ groups = None
  /\ groups' = Some(PackageGroups(modules))
  /\ UNCHANGED <<modules, stage, filtered, tree, summary, providers>>
  /\ UNCHANGED xrayVars
  /\ UNCHANGED <<lifeVars, ctlVars, aggVars>>

-----------------------------------------------------------------------------
(* Specifications.                                                         *)

\* The controller is not part of the profiled process: its variables rest.
IdleInput == [cwd |-> <<"app">>, entry |-> None, files |-> {}]

InitLifecycle ==
  InitLifecycleVars /\ InitControllerVars /\ input = IdleInput /\ InitAggregatorVars
  /\ InitReportVars /\ modules = NoModules

NextLifecycle ==
  \/ \E i \in Invocations, k \in TracedKeys, kind \in Kinds : start(i, k[1], k[2], kind)
  \/ \E i \in Invocations : end(i)
  \/ endDeferred
  \/ \E i \in Invocations : asyncStart(i)
  \/ \E i \in Invocations : asyncEnd(i)
  \/ \E i \in Invocations : error(i)
  \/ Tick

SpecLifecycle == InitLifecycle /\ [][NextLifecycle]_vars

\* The profiled process is not part of the controller: its variables rest.
InitController ==
  InitLifecycleVars /\ InitControllerVars /\ input \in Inputs /\ InitAggregatorVars
  /\ InitReportVars /\ modules = NoModules

NextController ==
  \/ profile
  \/ timeoutFires
  \/ forceKillFires
  \/ \E output \in Chunks : onStdout(output)
  \/ \E msg \in Messages : onMessage(msg)
  \/ onError
  \/ \E code \in ExitCodes : onExit(code)
  \/ ClockTick

SpecController == InitController /\ [][NextController]_vars

-----------------------------------------------------------------------------
(* Lifecycle Observer: properties.                                         *)

\* This step runs the deferred check scheduled by the end event of invocation i.
CheckRuns(i) == HasTimer(i) /\ ~(HasTimer(i))'

\* This step publishes the asyncEnd event of invocation i.
AsyncEndFires(i) == inv[i].stage = "asyncStarted" /\ inv'[i].stage = "asyncEnded"

\* C1: synchronous case. When the deferred check of an invocation runs and
\* asyncStart has not fired for its key (the invocation is the only one
\* published for the key), the check commits (time of end) - (time of start),
\* not the time at which the check runs, and clears the pending start.
C1_SyncCommit ==
  [][\A i \in Invocations :
       (CheckRuns(i) /\ Solo(i) /\ inv[i].stage = "ended")
         => /\ HasDuration(providerPhases', inv[i].name, inv[i].phase)
            /\ providerPhases'[inv[i].name][inv[i].phase] = inv[i].endAt - inv[i].startAt
            /\ ~MapHas(providerStarts', InvKey(i))]_vars

\* C1 witness: a synchronous invocation, alone on its key, whose deferred check
\* has run some time after its end event and has committed a duration.
C1_Witness ==
  \E i \in Invocations :
    /\ inv[i].kind = "sync" /\ inv[i].stage = "ended" /\ ~HasTimer(i) /\ Solo(i)
    /\ HasDuration(providerPhases, inv[i].name, inv[i].phase)
    /\ providerPhases[inv[i].name][inv[i].phase] = 0
    /\ now = 1
    /\ ~MapHas(providerStarts, InvKey(i))

\* C2: asynchronous case with asyncStart before the deferred check. The
\* deferred check of an invocation whose asyncStart has fired commits nothing,
\* and when asyncStart fired before the check the asyncEnd event commits
\* (time of asyncEnd) - (time of start).
C2_AsyncCommit ==
  [][\A i \in Invocations :
       /\ (CheckRuns(i) /\ Solo(i) /\ inv[i].stage \in {"asyncStarted", "asyncEnded"})
            => providerPhases' = providerPhases
       /\ (AsyncEndFires(i) /\ Solo(i) /\ inv[i].asyncFirst)
            => /\ HasDuration(providerPhases', inv[i].name, inv[i].phase)
               /\ providerPhases'[inv[i].name][inv[i].phase] = now - inv[i].startAt]_vars

\* C2 witness: an asynchronous invocation, alone on its key, whose asyncStart
\* fired before its deferred check, after asyncEnd and the check: the key holds
\* a duration longer than end - start could be.
C2_Witness ==
  \E i \in Invocations :
    /\ inv[i].kind = "async" /\ inv[i].stage = "asyncEnded" /\ inv[i].asyncFirst
    /\ ~HasTimer(i) /\ Solo(i)
    /\ HasDuration(providerPhases, inv[i].name, inv[i].phase)
    /\ providerPhases[inv[i].name][inv[i].phase] = 1

\* C3: every asynchronous invocation. For an invocation publishing start, end,
\* asyncStart, asyncEnd, alone on its key, the deferred check never commits
\* and the duration recorded at asyncEnd is (time of asyncEnd) - (time of
\* start), wherever the deferred check falls among the events.
C3_AsyncAlwaysWaits ==
  [][\A i \in Invocations :
       /\ (CheckRuns(i) /\ Solo(i) /\ inv[i].kind = "async")
            => providerPhases' = providerPhases
       /\ (AsyncEndFires(i) /\ Solo(i))
            => /\ HasDuration(providerPhases', inv[i].name, inv[i].phase)
               /\ providerPhases'[inv[i].name][inv[i].phase] = now - inv[i].startAt]_vars

\* The loader after one synchronous boot of AppProvider that took one
\* millisecond (a state SpecLifecycle reaches).
AfterBoot ==
  /\ providerStarts = EmptyMap
  /\ asyncCalls = {}
  /\ providerPhases = [n \in {"AppProvider"} |-> [p \in {"boot"} |-> 1]]
  /\ timers = <<>>
  /\ now = 1
  /\ inv = [i \in Invocations |->
              IF i = 1
              THEN [IdleInvocation EXCEPT !.name = "AppProvider", !.phase = "boot",
                                          !.stage = "ended"]
              ELSE IdleInvocation]

\* The profiled process with its hooks and its aggregator; the provider phases
\* are those of a process before or after its first provider booted.
InitAggregator ==
  /\ InitLifecycleVars \/ AfterBoot
  /\ InitControllerVars /\ input = IdleInput
  /\ InitAggregatorVars
  /\ InitReportVars /\ modules = NoModules

NextAggregator ==
  \/ initialize
  \/ \E url \in Specifiers, parentURL \in {None} \cup {Some(u) : u \in Urls} :
       resolveHook(url, parentURL)
  \/ \E url \in Specifiers, format \in Formats, loadTime \in LoadTimes :
       loadHook(url, format, loadTime)
  \/ flush
  \/ portMessage
  \/ \E type \in RequestTypes : processMessage(type)
  \/ \E type \in RequestTypes : processMessageTimed(type)
  \/ elapse

SpecAggregator == InitAggregator /\ [][NextAggregator]_vars

\* The hooks thread alone, with what each hook call returns.
NextHooks ==
  \/ initialize
  \/ \E url \in Specifiers, parentURL \in {None} \cup {Some(u) : u \in Urls} :
       resolve(url, parentURL)
  \/ \E url \in Specifiers, format \in Formats, loadTime \in LoadTimes :
       load(url, format, loadTime)
  \/ flush

SpecHooks == InitAggregator /\ [][NextHooks]_vars

\* The report works on a finished profile: the other components rest.
InitReport ==
  /\ InitLifecycleVars /\ InitControllerVars /\ input = IdleInput /\ InitAggregatorVars
  /\ InitReportVars
  /\ \E n \in 0..MaxModules :
       \E urls \in UrlLists(n, ModuleUrls), parentUrls \in [1..n -> ParentUrls] :
         modules = ModuleList(urls, parentUrls)

NextReport ==
  \/ construct
  \/ \E config \in Configs : filterModules(config)
  \/ constructFiltered
  \/ buildTree
  \/ computeSummary

SpecReport == InitReport /\ [][NextReport]_vars

\* A profile of packages in both store layouts; a module was imported by the
\* first-party file or by nothing that was timed.
InitPackages ==
  /\ InitLifecycleVars /\ InitControllerVars /\ input = IdleInput /\ InitAggregatorVars
  /\ InitReportVars
  /\ \E n \in 0..MaxModules :
       \E urls \in UrlLists(n, PackageUrls), parentUrls \in [1..n -> {None, Some(KernelUrl)}] :
         modules = ModuleList(urls, parentUrls)

NextPackages ==
  \/ construct
  \/ groupModulesByPackage

SpecPackages == InitPackages /\ [][NextPackages]_vars

\* A committed duration, in milliseconds.
Durations == 1..MaxDuration

\* The records of committed durations over some of the given phases.
PhaseRecords(phases) == UNION {[observed -> Durations] : observed \in SUBSET phases}

\* The map received from the child: the providers that committed a phase.
PhaseMap(app, hash) ==
  [name \in {n \in ProviderNames : DOMAIN (IF n = "AppProvider" THEN app ELSE hash) # {}} |->
     IF name = "AppProvider" THEN app ELSE hash]

\* The results held any committed phases of one provider and possibly a boot
\* of another; no module was timed.
InitSummary ==
  /\ InitLifecycleVars /\ InitControllerRest /\ input = IdleInput /\ InitAggregatorVars
  /\ InitReportVars /\ modules = NoModules
  /\ \E app \in PhaseRecords(Phases), hash \in PhaseRecords({"boot"}) :
       state = [InitialState EXCEPT !.providerPhases = PhaseMap(app, hash)]

NextSummary ==
  \/ construct
  \/ computeSummary

SpecSummary == InitSummary /\ [][NextSummary]_vars

\* The x-ray view over the tree of a profile.
NextXray ==
  \/ construct
  \/ buildTree
  \/ \E url \in ModuleUrls : showChain(url)

SpecXray == InitReport /\ [][NextXray]_vars

\* The x-ray app over a profile result with or without providers.
InitNavigation ==
  /\ InitLifecycleVars /\ InitControllerVars /\ input = IdleInput /\ InitAggregatorVars
  /\ stage = "input" /\ filtered = <<>> /\ tree = None /\ summary = None /\ groups = None
  /\ providers = None /\ chain = None /\ modules = NoModules
  /\ hasProviders \in BOOLEAN
  /\ InitNavigationVars

NextNavigation ==
  \/ \E key \in Keys : keyPress(key)
  \/ \E node \in ModuleUrls : selectModule(node)
  \/ \E name \in ProviderNames : selectProvider(name)
  \/ selectSwitch
  \/ selectBack

SpecNavigation == InitNavigation /\ [][NextNavigation]_vars

-----------------------------------------------------------------------------
(* Process Controller: properties.                                         *)

\* The load-time, parent and provider data of a resolved promise.
ResolvedData(p) ==
  [loadTimes |-> p.data[1].loadTimes, parents |-> p.data[1].parents,
   providerPhases |-> p.data[1].providerPhases]

\* This step accepts a results message: complete() runs past its guard.
CompleteStep == ~state.done /\ state'.done

\* This step resolves profile().
ResolveStep == promise.status = "pending" /\ promise'.status = "resolved"

\* This step is the child's exit event.
ExitStep == child.status = "running" /\ child'.status = "exited"

\* C4: completion. Accepting a results message marks the run done, cancels
\* the timeout, sends SIGTERM and arms the 500 ms grace timer; the grace timer
\* sends SIGKILL at its deadline unless the exit event cancelled it; profile()
\* resolves only at the child's exit event, with the data of the accepted
\* results message.
C4_Completion ==
  [][/\ CompleteStep
          => /\ timeout' # "armed"
             /\ signals' = Kill("SIGTERM")
             /\ forceKill' = [status |-> "armed", at |-> clock + GRACE_MS]
     /\ (forceKill.status = "armed" /\ forceKill'.status = "fired")
          => clock = forceKill.at /\ signals' = Kill("SIGKILL")
     /\ ExitStep => forceKill'.status # "armed"
     /\ ResolveStep
          => /\ child'.status = "exited"
             /\ first.seen
             /\ ResolvedData(promise') = first.data[1]]_vars

\* C5 as stated: once the bound has passed in a run whose controller received
\* no results message, profile() has rejected with Timeout and the child was
\* sent SIGKILL (or had exited already).
C5_AlwaysTimeout ==
  (child.status # "none" /\ ~uncaught /\ ~first.seen /\ clock = TIMEOUT_MS /\ timeout # "armed")
    => /\ promise.status = "rejected" /\ promise.kind = "Timeout"
       /\ ("SIGKILL" \in Range(signals) \/ child.status = "exited")

\* C5, corrected: the timeout callback runs only at the bound and only in a run
\* that is not done and not settled; it sends SIGKILL to a running child and
\* rejects profile() with Timeout. The timeout is cancelled only by an accepted
\* results message, a child error or an exit with a code outside the whitelist
\* before completion (never by a missing marker or a whitelisted early exit).
C5_TimeoutRejects ==
  [][/\ (timeout = "armed" /\ timeout' = "fired")
          => /\ clock = TIMEOUT_MS
             /\ ~state.done
             /\ promise.status = "pending"
             /\ promise'.status = "rejected" /\ promise'.kind = "Timeout"
             /\ child.status = "running" => signals' = Append(signals, "SIGKILL")
     /\ (timeout = "armed" /\ timeout' = "cleared")
          => \/ CompleteStep
             \/ /\ promise.status = "pending"
                /\ promise'.status = "rejected"
                /\ promise'.kind \in {"ChildError", "ChildProcess"}]_vars

\* C5 witness: the child never printed the marker, exited early with a
\* whitelisted code, and the timeout fired: Timeout at the bound.
C5_Witness ==
  /\ timeout = "fired" /\ clock = TIMEOUT_MS
  /\ promise.status = "rejected" /\ promise.kind = "Timeout"
  /\ requests = 0 /\ ~first.seen
  /\ child.status = "exited" /\ child.exitCode = Some(0) /\ signals = <<>>

\* C6: missing entry point. Once profile() has been called with an entry whose
\* path join(cwd, entry || 'bin/server.ts') is not on disk, it has rejected
\* with the entry-point-not-found error carrying that path, no child exists,
\* no timer was started and no signal or request was sent.
C6_MissingEntry ==
  LET entry == IF input.entry \in {None, Some(<<>>)} THEN <<"bin", "server.ts">>
               ELSE input.entry[1]
      path == join(input.cwd, entry)
  IN  (promise.status # "none" /\ path \notin input.files)
        => /\ promise.status = "rejected" /\ promise.kind = "EntryPointNotFound"
           /\ promise.path = path
           /\ child.status = "none"
           /\ timeout = "unset" /\ forceKill = NoTimer
           /\ signals = <<>> /\ requests = 0

\* C6 witness: the default entry is missing and profile() has rejected with
\* the full path of bin/server.ts.
C6_Witness ==
  /\ input.entry = None /\ input.files = {<<"app", "bin", "console.ts">>}
  /\ promise.status = "rejected" /\ promise.kind = "EntryPointNotFound"
  /\ promise.path = <<"app", "bin", "server.ts">>
  /\ child.status = "none"

\* C7: the number of getResults messages sent never exceeds one.
C7_SingleRequest == requests <= 1

\* C8: idempotent completion. A results message handled after the run is done
\* sends no signal, starts no timer and settles nothing, and profile()
\* resolves with the data of the results message that completed the run.
C8_DuplicateIgnored ==
  [][/\ \A msg \in Messages :
          (msg.type = "results" /\ state.done /\ onMessage(msg))
            => UNCHANGED <<signals, timeout, forceKill, onceExit, promise>>
     /\ ResolveStep => ResolvedData(promise') = first.data[1]]_vars

\* The exit codes that are not failures.
ExitWhitelist == {None, Some(0), Some(137), Some(143)}

\* C9: exit handling. An exit before completion with a code outside the
\* whitelist cancels the timeout and leaves profile() rejected - with the
\* child-process error carrying the code if it was still pending; an exit
\* with a whitelisted code, or after completion, rejects nothing.
C9_ExitHandling ==
  [][ExitStep =>
       LET code == child'.exitCode
       IN  /\ (code \notin ExitWhitelist /\ ~state.done)
                => /\ promise'.status = "rejected"
                   /\ timeout' # "armed"
                   /\ promise.status = "pending"
                        => promise'.kind = "ChildProcess" /\ promise'.code = code
           /\ (code \in ExitWhitelist \/ state.done)
                => (promise'.status = "rejected" => promise = promise')]_vars

\* C9 witness: the child exited with code 1 before completion; profile() has
\* rejected with the child-process error for code 1 and the timeout is cancelled.
C9_Witness ==
  /\ child.status = "exited" /\ child.exitCode = Some(1)
  /\ ~state.done
  /\ promise.status = "rejected" /\ promise.kind = "ChildProcess" /\ promise.code = Some(1)
  /\ timeout = "cleared"

\* A readiness message of the AdonisJS web server: duration is a [sec, nsec] pair.
WellFormedReady(msg) ==
  msg.js = "object" /\ msg.isAdonisJS /\ msg.environment = "web" /\ Len(msg.duration) = 2

\* A results message with its data and load times.
WellFormedResults(msg) ==
  /\ msg.js = "object" /\ msg.type = "results"
  /\ msg.data # None /\ msg.data[1].loadTimes # None

\* C10: a message that is neither a well-formed readiness message nor a
\* well-formed results message leaves the controller as it was: no state
\* changes and no exception is raised.
C10_MalformedIgnored ==
  [][\A msg \in Messages :
       (~WellFormedReady(msg) /\ ~WellFormedResults(msg) /\ onMessage(msg))
         => UNCHANGED ctlVars]_vars

-----------------------------------------------------------------------------
(* Process Controller: liveness.                                           *)

\* A child that was sent SIGKILL exits, killed by the signal (exit code null).
KilledExit == "SIGKILL" \in Range(signals) /\ onExit(None)

\* The event loop runs every timer whose deadline is reached, time passes,
\* profile() is called, and a killed child exits.
SpecControllerLive ==
  /\ InitController
  /\ [][NextController]_vars
  /\ WF_vars(profile)
  /\ WF_vars(ClockTick)
  /\ WF_vars(timeoutFires)
  /\ WF_vars(forceKillFires)
  /\ WF_vars(KilledExit)

\* C11: profile() never blocks indefinitely. Unless a handler threw, the
\* promise returned by profile() is eventually resolved or rejected.
C11_EventuallySettles ==
  (promise.status = "pending") ~> (promise.status \in {"resolved", "rejected"} \/ uncaught)

-----------------------------------------------------------------------------
(* Readiness detection.                                                    *)

\* C12: readiness detection. While the child runs, a stdout chunk triggers a
\* getResults request exactly when it completes an occurrence of the marker in
\* the stream (inside the chunk or across the boundary with the chunks before).
C12_MarkerDetected ==
  [][\A output \in Chunks :
       (onStdout(output) /\ child.status = "running")
         => (requests' = requests + 1 <=> Includes(stdoutTail \o output, Marker))]_vars

-----------------------------------------------------------------------------
(* Import Observer and In-Process Aggregator: properties.                  *)

\* This step handles a getResults message: one more payload has been sent.
GetResultsStep == Len(sent') = Len(sent) + 1

\* The observation is the only one queued so far for its type and module.
OnlyForKey(obs) ==
  \A other \in emitted :
    (other.type = obs.type /\ other.child = obs.child /\ other.url = obs.url) => other = obs

\* The payload holds the observation.
InPayload(obs, payload) ==
  IF obs.type = "parent"
  THEN MapHas(payload.parents, obs.child) /\ payload.parents[obs.child] = obs.parent
  ELSE MapHas(payload.loadTimes, obs.url) /\ payload.loadTimes[obs.url] = obs.loadTime

\* C13: nothing is lost between the hooks and the payload. When getResults is
\* handled, every observation the hooks have queued before (the only one for
\* its module) is in the payload that is sent.
C13_NothingLost ==
  [][GetResultsStep
       => \A obs \in emitted : OnlyForKey(obs) => InPayload(obs, sent'[Len(sent')])]_vars

\* C14: snapshot idempotence. A getResults handled when the maps still hold
\* what the previous payload of the same loader reported sends a payload
\* identical to the previous one, and handling getResults leaves the
\* load-time, parent and phase-duration maps as they were.
C14_SnapshotIdempotent ==
  [][GetResultsStep
       => /\ UNCHANGED <<loadTimes, parents, providerPhases>>
          /\ LET before == sent[Len(sent)]
                 after == sent'[Len(sent')]
             IN  (/\ sent # <<>>
                  /\ (before.times = None) = (after.times = None)
                  /\ before.loadTimes = loadTimes
                  /\ before.parents = parents
                  /\ before.providers = Providers(providerPhases))
                   => after = before]_vars

\* The time a providers row reports for a phase.
RowTime(row, phase) ==
  CASE phase = "register" -> row.registerTime
    [] phase = "boot" -> row.bootTime
    [] phase = "start" -> row.startTime
    [] phase = "ready" -> row.readyTime
    [] phase = "shutdown" -> row.shutdownTime

\* The payload carries the content of the maps as they are now.
CarriesMaps(payload) ==
  /\ payload.loadTimes = loadTimes
  /\ payload.parents = parents
  /\ DOMAIN payload.providers = DOMAIN providerPhases
  /\ \A name \in DOMAIN providerPhases :
       \A phase \in DOMAIN providerPhases[name] :
         RowTime(payload.providers[name], phase) = providerPhases[name][phase]

\* C15: aggregator reply. Handling a getResults message sends exactly one
\* results message carrying the current content of the maps - empty maps when
\* nothing was observed - and changes nothing else; a message of another type
\* sends nothing and changes nothing.
C15_OneReplyPerRequest ==
  [][\A type \in RequestTypes :
       (processMessage(type) \/ processMessageTimed(type))
         => /\ UNCHANGED <<port, pendingMessages, flushScheduled, immediates, channel, loadTimes,
                           parents, emitted, returned, providerPhases, providerStarts,
                           asyncCalls>>
            /\ IF type = "getResults"
               THEN /\ Len(sent') = Len(sent) + 1
                    /\ SubSeq(sent', 1, Len(sent)) = sent
                    /\ CarriesMaps(sent'[Len(sent')])
               ELSE sent' = sent]_vars

\* C15 witness: the process answered a getResults before any observation with
\* empty maps, and a later one with the load time and provider phases it had
\* recorded by then.
C15_Witness ==
  /\ Len(sent) = 2
  /\ sent[1].loadTimes = EmptyMap /\ sent[1].parents = EmptyMap
  /\ sent[2].loadTimes # EmptyMap
  /\ sent[2].providers # EmptyMap
  /\ sent[2].times = None

-----------------------------------------------------------------------------
(* Reporting: properties.                                                  *)

\* The modules of a list that name module i as their parent.
ChildIndexes(mods, i) ==
  {j \in DOMAIN mods : mods[j].parentUrl = Some(mods[i].resolvedUrl)}

\* No set of modules has all its parents inside itself.
Acyclic(mods) ==
  \A S \in SUBSET DOMAIN mods :
    S # {} => \E i \in S : \A j \in S : mods[i].parentUrl # Some(mods[j].resolvedUrl)

RECURSIVE SumOf(_, _)
SumOf(S, f) ==
  IF S = {} THEN 0
  ELSE LET x == CHOOSE y \in S : TRUE IN f[x] + SumOf(S \ {x}, f)

\* Own load time plus the subtree times of the immediate children.
RecursionLaw(mods) ==
  \A i \in DOMAIN mods :
    /\ mods[i].subtreeTime # None
    /\ \A j \in ChildIndexes(mods, i) : mods[j].subtreeTime # None
    /\ mods[i].subtreeTime[1] =
         mods[i].loadTime
         + SumOf(ChildIndexes(mods, i), [j \in DOMAIN mods |-> OrElse(mods[j].subtreeTime, 0)])

\* A collector is constructed in this step.
ConstructStep ==
  construct \/ constructFiltered \/ \E config \in Configs : filterModules(config)

\* The list the collector of this step is constructed over, before and after.
ConstructedList == IF stage = "filtered" THEN Objects(modules, filtered) ELSE modules
ConstructedListAfter == IF stage = "filtered" THEN Objects(modules', filtered) ELSE modules'

\* C16 as stated: for every acyclic module list, after the construction of a
\* ProfileCollector each module's subtreeTime is its loadTime plus the sum of
\* the subtreeTime of its immediate children.
C16_LawOnEveryList ==
  [][(ConstructStep /\ Acyclic(ConstructedList)) => RecursionLaw(ConstructedListAfter)]_vars

\* C16, amended: the law holds for every acyclic module list whose first module
\* carries no subtreeTime yet, the lists the constructor computes over.
C16_LawWhenComputed ==
  [][(ConstructStep /\ Acyclic(ConstructedList) /\ NeedsSubtreeTimes(ConstructedList))
       => RecursionLaw(ConstructedListAfter)]_vars

\* A chain of three modules was computed: the head counts all three.
C16_Witness ==
  /\ stage = "collected"
  /\ Acyclic(modules)
  /\ \E i, j, k \in DOMAIN modules :
       /\ j \in ChildIndexes(modules, i)
       /\ k \in ChildIndexes(modules, j)
       /\ modules[k].subtreeTime = Some(modules[k].loadTime)
       /\ modules[j].subtreeTime = Some(modules[j].loadTime + modules[k].loadTime)
       /\ modules[i].subtreeTime
            = Some(modules[i].loadTime + modules[j].loadTime + modules[k].loadTime)

\* The modules reachable from the modules of S through child links, S included.
RECURSIVE Reachable(_, _)
Reachable(mods, S) ==
  LET next == S \cup {j \in DOMAIN mods : \E i \in S : j \in ChildIndexes(mods, i)}
  IN IF next = S THEN S ELSE Reachable(mods, next)

\* C17: for every module list, cyclic or not, the computation of the subtree
\* times ends, and each module's subtreeTime is the sum of loadTime over the
\* distinct modules reachable from it through child links, itself included.
C17_SumOverReachable ==
  [][(ConstructStep /\ NeedsSubtreeTimes(ConstructedList))
       => \A i \in DOMAIN ConstructedList :
            ConstructedListAfter[i].subtreeTime =
              Some(SumOf(Reachable(ConstructedList, {i}),
                         [j \in DOMAIN ConstructedList |-> ConstructedList[j].loadTime]))]_vars

\* A cycle of three modules was computed: each of them counts all three once.
C17_Witness ==
  /\ stage = "collected"
  /\ \E i, j, k \in DOMAIN modules :
       /\ j \in ChildIndexes(modules, i)
       /\ k \in ChildIndexes(modules, j)
       /\ i \in ChildIndexes(modules, k)
       /\ i # j
       /\ \A m \in {i, j, k} :
            modules[m].subtreeTime
              = Some(modules[i].loadTime + modules[j].loadTime + modules[k].loadTime)

\* The nodes of the tree that was built.
Nodes == tree[1].nodeMap

\* C18: buildDependencyTree ends on every module list, cyclic ones included,
\* with one node per module and a finite numeric depth on every node.
C18_TreeOnEveryInput ==
  tree # None =>
    /\ DOMAIN Nodes = {modules[i].resolvedUrl : i \in DOMAIN modules}
    /\ Cardinality(DOMAIN Nodes) = Len(modules)
    /\ \A url \in DOMAIN Nodes : Nodes[url].depth \in 0..(Len(modules) - 1)

\* The tree of a two-node mutual cycle was built: both nodes exist with a depth.
C18_Witness ==
  /\ tree # None
  /\ \E a, b \in DOMAIN Nodes :
       /\ a # b
       /\ Nodes[a].parent = Some(b)
       /\ Nodes[b].parent = Some(a)
       /\ Nodes[a].depth \in Nat
       /\ Nodes[b].depth \in Nat

\* How often a url stands in a list.
Occurrences(list, url) == Cardinality({k \in DOMAIN list : list[k] = url})

\* C19: a node whose parentUrl is the url of a node of the input is a child of
\* exactly that node and has it as its parent; a node whose parentUrl is absent
\* or matches no node has no parent and is a root; the roots are exactly the
\* nodes without a matched parent.
C19_Edges ==
  tree # None =>
    \A url \in DOMAIN Nodes :
      LET parentUrl == Nodes[url].timing.parentUrl
          matched == parentUrl # None /\ parentUrl[1] \in DOMAIN Nodes
      IN /\ matched =>
              /\ Nodes[url].parent = parentUrl
              /\ \A other \in DOMAIN Nodes :
                   Occurrences(Nodes[other].children, url)
                     = (IF other = parentUrl[1] THEN 1 ELSE 0)
              /\ Occurrences(tree[1].roots, url) = 0
         /\ ~matched =>
              /\ Nodes[url].parent = None
              /\ \A other \in DOMAIN Nodes : Occurrences(Nodes[other].children, url) = 0
              /\ Occurrences(tree[1].roots, url) = 1

\* A tree with a parentless root, a child attached to it, and an orphan whose
\* parentUrl names no module of the list.
C19_Witness ==
  /\ tree # None
  /\ \E root, kid, orphan \in DOMAIN Nodes :
       /\ Nodes[root].timing.parentUrl = None
       /\ Nodes[kid].parent = Some(root)
       /\ Nodes[root].children = <<kid>>
       /\ Nodes[orphan].timing.parentUrl # None
       /\ Nodes[orphan].timing.parentUrl[1] \notin DOMAIN Nodes
       /\ tree[1].roots \in {<<root, orphan>>, <<orphan, root>>}

\* C20: subtree times are computed once, over the full list: the modules that
\* filterModules returns are the objects of the full list, and a collector
\* constructed over the filtered list, or over any list whose modules already
\* carry a subtreeTime, leaves every subtreeTime as it was.
C20_ComputedOnce ==
  [][(stage # "input" \/ ~NeedsSubtreeTimes(modules))
       => /\ \A i \in DOMAIN modules : modules'[i].subtreeTime = modules[i].subtreeTime
          /\ Range(filtered') \subseteq DOMAIN modules
          /\ DOMAIN modules' = DOMAIN modules]_vars

\* A collector was constructed over a filtered list that lost a child: the
\* parent still counts the child that was filtered out.
C20_Witness ==
  /\ stage = "reported"
  /\ \E i \in Range(filtered) :
       \E j \in ChildIndexes(modules, i) \ Range(filtered) :
         /\ ChildIndexes(modules, i) = {j}
         /\ ChildIndexes(modules, j) = {}
         /\ modules[i].subtreeTime = Some(modules[i].loadTime + modules[j].loadTime)

\* The modules of the list by what they are, whatever their url text.
BuiltIns(mods) == {i \in DOMAIN mods : mods[i].resolvedUrl = NodeFsUrl}
Dependencies(mods) == {i \in DOMAIN mods : mods[i].resolvedUrl \in {CoreUrl, LuxonUrl}}

\* The effective time of a module: its subtreeTime if present, else its loadTime.
EffectiveTime(m) == IF m.subtreeTime # None THEN m.subtreeTime[1] ELSE m.loadTime

C22_TotalIsSelfTime ==
  summary # None =>
    summary[1].totalModuleTime =
      SumOf(DOMAIN modules, [i \in DOMAIN modules |-> modules[i].loadTime])

\* How many modules of the list have one of the urls.
CountOf(mods, urls) == Cardinality({i \in DOMAIN mods : mods[i].resolvedUrl \in urls})

\* C25: every module is in exactly one of the categories built-in, framework,
\* third-party, first-party, so the counts of the summary partition the list:
\* totalModules = userModules + nodeModules + adonisModules + the number of
\* built-ins, and all counts are 0 for an empty list.
C25_CountsPartition ==
  summary # None =>
    /\ summary[1].totalModules = Len(modules)
    /\ summary[1].userModules = CountOf(modules, {KernelUrl})
    /\ summary[1].nodeModules = CountOf(modules, {LuxonUrl})
    /\ summary[1].adonisModules = CountOf(modules, {CoreUrl})
    /\ summary[1].totalModules =
         summary[1].userModules + summary[1].nodeModules + summary[1].adonisModules
         + CountOf(modules, {NodeFsUrl})
    /\ modules = <<>> =>
         /\ summary[1].totalModules = 0
         /\ summary[1].userModules = 0
         /\ summary[1].nodeModules = 0
         /\ summary[1].adonisModules = 0

\* The summary of a list with a built-in, a framework and a third-party module.
C25_Witness ==
  /\ summary # None
  /\ summary[1].totalModules = 3
  /\ summary[1].userModules = 0
  /\ summary[1].nodeModules = 1
  /\ summary[1].adonisModules = 1

\* The groups that were computed.
Groups == groups[1]

\* The package a module url belongs to.
PackageOf(url) ==
  CASE url = KernelUrl -> <<"app">>
    [] url = CoreUrl -> <<"@adonisjs", "core">>
    [] url \in {LuxonUrl, PnpmLuxonUrl} -> <<"luxon">>
    [] url \in {LodashGetUrl, LodashSetUrl} -> <<"lodash">>

\* C23: groupModulesByPackage partitions the module list: every module is in
\* exactly one group, named by its package ('app' for first-party files);
\* modules of one package are in one group; each group's totalTime is the sum of
\* its modules' times; the groups are in non-increasing totalTime order.
C23_PackagePartition ==
  groups # None =>
    /\ \A i \in DOMAIN modules :
         \E g \in DOMAIN Groups :
           /\ Occurrences(Groups[g].modules, i) = 1
           /\ Groups[g].name = PackageOf(modules[i].resolvedUrl)
           /\ \A h \in DOMAIN Groups : h # g => Occurrences(Groups[h].modules, i) = 0
    /\ \A g, h \in DOMAIN Groups : Groups[g].name = Groups[h].name => g = h
    /\ \A g \in DOMAIN Groups :
         /\ Range(Groups[g].modules) \subseteq DOMAIN modules
         /\ Groups[g].totalTime =
              SumOf(Range(Groups[g].modules),
                    [i \in DOMAIN modules |-> EffectiveTime(modules[i])])
    /\ \A g, h \in DOMAIN Groups : g < h => Groups[g].totalTime >= Groups[h].totalTime

\* The segments after the rightmost package-store marker: two when the first is
\* a scope, one otherwise.
AfterRightmostMarker(url) ==
  LET found == {k \in 1..(Len(url) - 1) : url[k] = "node_modules"}
      k == CHOOSE rightmost \in found : \A other \in found : other <= rightmost
  IN IF url[k + 1] \in Scopes /\ k + 2 <= Len(url) THEN <<url[k + 1], url[k + 2]>>
     ELSE <<url[k + 1]>>

\* C24: the package name of a url in a package store is made of the segments
\* after the rightmost 'node_modules/', so a package in a nested store gets the
\* name it has in the flat layout.
C24_RightmostMarker ==
  groups # None =>
    \A g \in DOMAIN Groups :
      \A i \in Range(Groups[g].modules) :
        IncludesPath(modules[i].resolvedUrl, <<"node_modules">>)
          => Groups[g].name = AfterRightmostMarker(modules[i].resolvedUrl)

\* C29: depths on acyclic inputs. In the tree of a module list without a
\* cycle every node without a parent is a root of depth 0 and every other
\* node has the depth of its parent plus 1.
C29_Depths ==
  (tree # None /\ Acyclic(modules)) =>
    \A url \in DOMAIN Nodes :
      IF Nodes[url].parent = None
      THEN Nodes[url].depth = 0 /\ Occurrences(tree[1].roots, url) = 1
      ELSE /\ Nodes[url].depth = Nodes[Nodes[url].parent[1]].depth + 1
           /\ Occurrences(tree[1].roots, url) = 0

\* C29 witness: the tree of a chain of three modules, at depths 0, 1 and 2,
\* was built.
C29_Witness ==
  /\ tree # None /\ Acyclic(modules)
  /\ \E root, kid, grandkid \in DOMAIN Nodes :
       /\ Nodes[root].parent = None /\ Nodes[root].depth = 0
       /\ Nodes[kid].parent = Some(root) /\ Nodes[kid].depth = 1
       /\ Nodes[grandkid].parent = Some(kid) /\ Nodes[grandkid].depth = 2

\* The list is in non-increasing order of the effective time of its nodes.
SlowestFirst(list) ==
  \A j, k \in DOMAIN list :
    j < k => EffectiveTime(Nodes[list[j]].timing) >= EffectiveTime(Nodes[list[k]].timing)

\* C30: ordering of the tree. Every node's children list is in non-increasing
\* order of effective time (subtree time if present, else self time), and
\* sortedByTime holds every node exactly once, in the same order.
C30_SlowestFirst ==
  tree # None =>
    /\ \A url \in DOMAIN Nodes : SlowestFirst(Nodes[url].children)
    /\ \A url \in DOMAIN Nodes : Occurrences(tree[1].sortedByTime, url) = 1
    /\ Len(tree[1].sortedByTime) = Cardinality(DOMAIN Nodes)
    /\ SlowestFirst(tree[1].sortedByTime)

\* The import chain that was computed and the node it was computed for.
Chain == chain[1].list

\* C31: getImportChain. The chain ends with the node itself, each element is
\* the parent of the next, no node stands in it twice (also on cyclic parent
\* links, where the walk still ends), and when the modules have no cycle the
\* first element has no parent and is a root.
C31_ImportChain ==
  chain # None =>
    /\ Len(Chain) >= 1
    /\ Chain[Len(Chain)] = chain[1].node
    /\ \A k \in 1..(Len(Chain) - 1) : Nodes[Chain[k + 1]].parent = Some(Chain[k])
    /\ \A url \in DOMAIN Nodes : Occurrences(Chain, url) <= 1
    /\ Acyclic(modules) =>
         /\ Nodes[Chain[1]].parent = None
         /\ Occurrences(tree[1].roots, Chain[1]) = 1

\* C31 witness: the chain of the last module of a chain of three modules is
\* root, middle, leaf.
C31_Witness ==
  /\ chain # None
  /\ Acyclic(modules)
  /\ Len(Chain) = 3
  /\ Nodes[Chain[1]].parent = None
  /\ Nodes[Chain[2]].parent = Some(Chain[1])
  /\ Nodes[Chain[3]].parent = Some(Chain[2])
  /\ chain[1].node = Chain[3]

\* The chain of a node on a two-node cycle was computed: both nodes, once each.
C31_WitnessCycle ==
  /\ chain # None
  /\ Len(Chain) = 2
  /\ Nodes[Chain[1]].parent = Some(Chain[2])
  /\ Nodes[Chain[2]].parent = Some(Chain[1])

-----------------------------------------------------------------------------
(* Lifecycle Observer: overlapping invocations and error events.           *)

\* This step publishes the start event of invocation i.
StartFires(i) == inv[i].stage = "idle" /\ inv'[i].stage = "started"

\* This step commits a duration for the key: its pending start is consumed.
Commits(key) == MapHas(providerStarts, key) /\ ~MapHas(providerStarts', key)

\* The end time a commit measures to: the time captured by the end event whose
\* deferred check runs in this step, or the current time in asyncEnd.
CommitEnd == IF timers' # timers THEN Head(timers).endTime ELSE now

\* C26: last-start-wins. The pending starts are a map from keys, one start
\* time per key. Every start event sets the pending start of its key to the
\* time of that event, whether or not a start was pending for the key, and
\* leaves the other keys alone; every commit for a key stores the end time
\* minus the pending start, which is therefore the time of the latest start.
C26_LastStartWins ==
  [][/\ \A i \in Invocations :
          StartFires(i)
            => LET key == Key(inv'[i].name, inv'[i].phase)
               IN  /\ MapHas(providerStarts', key)
                   /\ providerStarts'[key] = now
                   /\ \A other \in DOMAIN providerStarts' \ {key} :
                        MapHas(providerStarts, other)
                        /\ providerStarts'[other] = providerStarts[other]
     /\ \A key \in TracedKeys :
          Commits(key)
            => /\ HasDuration(providerPhases', key[1], key[2])
               /\ providerPhases'[key[1]][key[2]] = CommitEnd - providerStarts[key]]_vars

\* C26 witness: the end event of a first invocation captured time 0, a second
\* invocation then started on the same key at time 1 while the first start was
\* pending, and the deferred check of the first committed 0 - 1: the commit
\* measured from the second start (from the first it would be 0).
C26_Witness ==
  /\ inv[1].stage = "ended" /\ inv[1].kind = "sync" /\ ~HasTimer(1)
  /\ inv[2].stage = "started"
  /\ InvKey(1) = InvKey(2)
  /\ HasDuration(providerPhases, inv[1].name, inv[1].phase)
  /\ providerPhases[inv[1].name][inv[1].phase] = 0 - 1
  /\ ~MapHas(providerStarts, InvKey(1))

\* This step publishes the error event of invocation i.
ErrorFires(i) == ~inv[i].errored /\ inv'[i].errored

\* An error event has been published for some invocation.
SomeFailed == \E j \in Invocations : inv[j].errored

\* C27: error events are discarded. The step that publishes an error event
\* changes no pending start, async marker, committed duration or scheduled
\* check; and once an error has been published (for the same invocation or
\* another one) the deferred check of an invocation alone on its key still
\* commits (time of end) - (time of start), and after the asyncEnd event of
\* an invocation alone on its key the key holds a duration.
C27_ErrorsDiscarded ==
  [][/\ \A i \in Invocations :
          ErrorFires(i) => UNCHANGED <<providerStarts, asyncCalls, providerPhases, timers>>
     /\ \A i \in Invocations :
          (SomeFailed /\ CheckRuns(i) /\ Solo(i) /\ inv[i].stage = "ended")
            => /\ HasDuration(providerPhases', inv[i].name, inv[i].phase)
               /\ providerPhases'[inv[i].name][inv[i].phase] = inv[i].endAt - inv[i].startAt
     /\ \A i \in Invocations :
          (SomeFailed /\ AsyncEndFires(i) /\ Solo(i))
            => HasDuration(providerPhases', inv[i].name, inv[i].phase)]_vars

\* C27 witness: the method of one provider threw (error, then end), and both
\* its key and the key of another provider, invoked afterwards, hold a
\* committed duration.
C27_Witness ==
  /\ inv[1].errored /\ inv[1].kind = "sync" /\ inv[1].stage = "ended" /\ ~HasTimer(1)
  /\ inv[2].stage = "ended" /\ ~inv[2].errored /\ ~HasTimer(2)
  /\ inv[1].name # inv[2].name
  /\ HasDuration(providerPhases, inv[1].name, inv[1].phase)
  /\ HasDuration(providerPhases, inv[2].name, inv[2].phase)

\* C33: one commit per invocation. For an invocation that is alone on its
\* key, a duration appears for the key only in a step that consumes the
\* pending start, and once the key holds a duration no later step (the other
\* of the deferred check and asyncEnd) changes it or finds a start pending.
C33_OneCommit ==
  [][\A i \in Invocations :
       (inv'[i].stage # "idle" /\ Solo(i)')
         => LET name == inv'[i].name
                phase == inv'[i].phase
            IN  IF HasDuration(providerPhases, name, phase)
                THEN /\ HasDuration(providerPhases', name, phase)
                     /\ providerPhases'[name][phase] = providerPhases[name][phase]
                     /\ ~MapHas(providerStarts', Key(name, phase))
                ELSE HasDuration(providerPhases', name, phase) => Commits(Key(name, phase))]_vars

\* C33 witness: an asynchronous invocation, alone on its key, whose deferred
\* check ran before asyncStart and committed 0; asyncEnd came at time 1 and
\* committed nothing: the key still holds 0.
C33_Witness ==
  \E i \in Invocations :
    /\ inv[i].kind = "async" /\ inv[i].stage = "asyncEnded" /\ ~inv[i].asyncFirst
    /\ ~HasTimer(i) /\ Solo(i)
    /\ now = 1
    /\ HasDuration(providerPhases, inv[i].name, inv[i].phase)
    /\ providerPhases[inv[i].name][inv[i].phase] = 0
    /\ ~MapHas(providerStarts, InvKey(i))

\* C34: every committed duration is the elapsed time of one invocation. A
\* commit by the deferred check of an invocation stores that invocation's end
\* time minus its own start time, a commit by asyncEnd the time of asyncEnd
\* minus the invocation's own start time, and the stored value is never
\* negative.
C34_OwnElapsedTime ==
  [][\A i \in Invocations :
       LET name == inv[i].name
           phase == inv[i].phase
       IN  /\ (CheckRuns(i) /\ Commits(InvKey(i)))
                => /\ providerPhases'[name][phase] = inv[i].endAt - inv[i].startAt
                   /\ providerPhases'[name][phase] >= 0
           /\ (AsyncEndFires(i) /\ Commits(InvKey(i)))
                => /\ providerPhases'[name][phase] = now - inv[i].startAt
                   /\ providerPhases'[name][phase] >= 0]_vars

\* Every (provider, phase) pair.
AllKeys == ProviderNames \X Phases

\* The keys of the events handled in this step: the key of the invocation
\* whose event is published, or of the deferred check that runs.
EventKeys ==
  {Key(inv'[i].name, inv'[i].phase) :
     i \in {j \in Invocations : inv'[j].stage # inv[j].stage \/ inv'[j].errored # inv[j].errored}}
  \cup (IF Len(timers') < Len(timers) THEN {Key(Head(timers).name, Head(timers).phase)} ELSE {})

\* The pending start, the async marker or the committed duration of the key
\* is not the same after this step.
KeyChanges(key) ==
  \/ MapHas(providerStarts, key) # MapHas(providerStarts', key)
  \/ MapHas(providerStarts, key) /\ providerStarts'[key] # providerStarts[key]
  \/ (key \in asyncCalls) # (key \in asyncCalls')
  \/ HasDuration(providerPhases, key[1], key[2]) # HasDuration(providerPhases', key[1], key[2])
  \/ /\ HasDuration(providerPhases, key[1], key[2])
     /\ providerPhases'[key[1]][key[2]] # providerPhases[key[1]][key[2]]

\* C35: per-key isolation. A step changes the pending start, the async marker
\* or the committed duration of no key other than the key of the event it
\* handles; in particular a commit for one phase of a provider leaves the
\* provider's other durations as they were.
C35_KeyIsolation ==
  [][\A key \in AllKeys : KeyChanges(key) => key \in EventKeys]_vars

\* C35 witness: two invocations of the same provider overlapped, shutdown
\* nested in boot; both phases hold their own duration.
C35_Witness ==
  /\ inv[1].name = "AppProvider" /\ inv[1].phase = "boot"
  /\ inv[2].name = "AppProvider" /\ inv[2].phase = "shutdown"
  /\ inv[1].stage = "ended" /\ inv[2].stage = "ended" /\ timers = <<>>
  /\ HasDuration(providerPhases, "AppProvider", "boot")
  /\ HasDuration(providerPhases, "AppProvider", "shutdown")
  /\ providerPhases["AppProvider"]["boot"] = 1
  /\ providerPhases["AppProvider"]["shutdown"] = 0

-----------------------------------------------------------------------------
(* Process Controller: one outcome per run.                                *)

Settled(p) == p.status \in {"rejected", "resolved"}

C36_WitnessResolved ==
  /\ promise.status = "resolved"
  /\ child.status = "exited" /\ child.exitCode = Some(1)

-----------------------------------------------------------------------------
(* Import Observer: what the hooks observe and return.                     *)

\* The URLs of local files among the URLs the hooks are called with.
LocalUrls == {"file:///app/a.ts", "file:///app/b.ts"}

\* The observations queued in this step.
Observed == emitted' \ emitted

-----------------------------------------------------------------------------
(* Aggregator: one entry per URL, the last observation wins.               *)

\* The positions of a batch that hold an observation of the type for the URL.
ObservationsOf(batch, type, url) ==
  {k \in DOMAIN batch :
     /\ batch[k].type = type
     /\ (IF type = "timing" THEN batch[k].url ELSE batch[k].child) = url}

Latest(positions) == CHOOSE k \in positions : \A j \in positions : j <= k

\* The map after a batch: for each URL the value of its last observation in
\* the batch, or the value it had.
AfterBatch(map, map2, batch, type) ==
  \A url \in Specifiers :
    LET obs == ObservationsOf(batch, type, url)
    IN  IF obs # {}
        THEN /\ MapHas(map2, url)
             /\ map2[url] = (IF type = "timing" THEN batch[Latest(obs)].loadTime
                             ELSE batch[Latest(obs)].parent)
        ELSE /\ MapHas(map2, url) = MapHas(map, url)
             /\ MapHas(map, url) => map2[url] = map[url]

\* The maps the profile result is built from: those of the payloads sent in
\* this step.
Snapshots == {<<sent'[k].loadTimes, sent'[k].parents>> : k \in DOMAIN sent' \ DOMAIN sent}

\* The records of the result for the URL.
RecordsOf(result, url) == {i \in DOMAIN result : result[i].resolvedUrl = url}

\* C38: URL uniqueness, last observation wins. Handling a batch leaves for
\* each URL the load time and the parent of its last observation; the result
\* built from a snapshot of the maps has exactly one record per URL with a load
\* time, carrying that load time and the recorded parent if any, and no record
\* for a URL that has only a parent.
C38_OnePerUrl ==
  [][/\ Len(channel') < Len(channel)
          => /\ AfterBatch(loadTimes, loadTimes', Head(channel), "timing")
             /\ AfterBatch(parents, parents', Head(channel), "parent")
     /\ \A snap \in Snapshots :
          LET result == buildResults(snap[1], snap[2])
          IN  \A url \in Specifiers :
                IF MapHas(snap[1], url)
                THEN /\ Cardinality(RecordsOf(result, url)) = 1
                     /\ \A i \in RecordsOf(result, url) :
                          /\ result[i].loadTime = snap[1][url]
                          /\ result[i].parentUrl =
                               (IF MapHas(snap[2], url) THEN Some(snap[2][url]) ELSE None)
                ELSE RecordsOf(result, url) = {}]_vars

\* C38 witness: a snapshot was sent with the first load time of a.ts; a later
\* observation for a.ts replaced it; the next snapshot carries the new time.
C38_Witness ==
  /\ Len(sent) = 2
  /\ sent[1].loadTimes = MapSet(EmptyMap, "file:///app/a.ts", 10)
  /\ sent[2].loadTimes = MapSet(EmptyMap, "file:///app/a.ts", 20)
  /\ Len(buildResults(sent[2].loadTimes, sent[2].parents)) = 1

\* C38 witness: b.ts has a parent observation and no load time; the result of
\* the snapshot holds the record of a.ts only.
C38_WitnessParentOnly ==
  /\ Len(sent) = 1
  /\ DOMAIN sent[1].parents = {"file:///app/b.ts"}
  /\ DOMAIN sent[1].loadTimes = {"file:///app/a.ts"}
  /\ Len(buildResults(sent[1].loadTimes, sent[1].parents)) = 1

-----------------------------------------------------------------------------
(* X-ray: navigation properties.                                           *)

\* No detail is open.
AtRoot == selectedProvider = None /\ moduleHistory = <<>>

\* The other list view.
OtherView == IF view = "modules" THEN "providers" ELSE "modules"

\* The keys that go back.
BackKeys == {"leftArrow", "backspace", "escape"}

\* C39: x-ray navigation. A provider detail and a non-empty module history
\* are never open together; a selection of a module appends it to the
\* history; left arrow, Backspace and ESC close the provider detail if one is
\* open, else remove exactly the last module of the history; Tab changes the
\* view only at the root, and leaves history and selection empty; at the root
\* ESC and q quit, left arrow and Backspace change nothing.
C39_Navigation ==
  [][/\ ~(selectedProvider' # None /\ moduleHistory' # <<>>)
     /\ \A node \in ModuleUrls :
          selectModule(node) => moduleHistory' = moduleHistory \o <<node>>
     /\ \A key \in BackKeys :
          (keyPress(key) /\ ~AtRoot)
            => /\ IF selectedProvider # None
                  THEN selectedProvider' = None /\ moduleHistory' = moduleHistory
                  ELSE /\ Len(moduleHistory') = Len(moduleHistory) - 1
                       /\ moduleHistory = moduleHistory' \o <<moduleHistory[Len(moduleHistory)]>>
                       /\ selectedProvider' = None
               /\ view' = view /\ ~exited'
     /\ keyPress("tab")
          => IF AtRoot
             THEN view' = OtherView /\ moduleHistory' = <<>> /\ selectedProvider' = None
                  /\ ~exited'
             ELSE UNCHANGED navVars
     /\ view' # view => AtRoot /\ moduleHistory' = <<>> /\ selectedProvider' = None
     /\ (AtRoot /\ (keyPress("escape") \/ keyPress("q")))
          => exited' /\ UNCHANGED <<view, moduleHistory, selectedProvider>>
     /\ (AtRoot /\ (keyPress("leftArrow") \/ keyPress("backspace")))
          => UNCHANGED navVars]_vars

\* C39 witness: a module was selected in the list and another one from its
\* module view; the history holds both, the current one last.
C39_Witness ==
  /\ view = "modules" /\ selectedProvider = None /\ ~exited
  /\ Len(moduleHistory) = 2
  /\ moduleHistory[1] # moduleHistory[2]

\* C39 witness: Tab opened the Providers view, a provider detail was opened
\* there.
C39_WitnessProvider ==
  /\ view = "providers" /\ selectedProvider = Some("HashProvider")
  /\ moduleHistory = <<>> /\ ~exited

-----------------------------------------------------------------------------
(* Reporting: provider timings.                                            *)

\* The ProviderTiming rows of the collector.
Rows == providers[1]

\* The duration committed for a phase of a provider, 0 when none was.
Committed(phases, name, phase) ==
  IF HasDuration(phases, name, phase) THEN phases[name][phase] ELSE 0

RECURSIVE SumOfTotals(_, _)
SumOfTotals(rows, names) ==
  IF names = {} THEN 0
  ELSE LET name == CHOOSE n \in names : TRUE
       IN rows[name].totalTime + SumOfTotals(rows, names \ {name})

\* C28: PluginTiming derivation. The collector holds one row for every
\* provider with a committed phase and no other; the row holds the committed
\* duration of each of the five phases, 0 for a phase that was not observed,
\* and totalTime = register + boot + start + ready (shutdown excluded). The
\* rows of the getResults handler are the same. summary.totalProviderTime is
\* the sum of the rows' totalTime.
C28_ProviderTimings ==
  LET phases == state.providerPhases
  IN  /\ providers # None =>
           /\ DOMAIN Rows = DOMAIN phases
           /\ \A name \in DOMAIN phases :
                /\ Rows[name].name = name
                /\ Rows[name].registerTime = Committed(phases, name, "register")
                /\ Rows[name].bootTime = Committed(phases, name, "boot")
                /\ Rows[name].startTime = Committed(phases, name, "start")
                /\ Rows[name].readyTime = Committed(phases, name, "ready")
                /\ Rows[name].shutdownTime = Committed(phases, name, "shutdown")
                /\ Rows[name].totalTime =
                     Committed(phases, name, "register") + Committed(phases, name, "boot")
                     + Committed(phases, name, "start") + Committed(phases, name, "ready")
           /\ Providers(phases) = Rows
      /\ summary # None => summary[1].totalProviderTime = SumOfTotals(Rows, DOMAIN Rows)

\* C28 witness: one provider committed boot and shutdown only, another boot
\* only; the summary was computed and its provider time is the two boots.
C28_Witness ==
  /\ summary # None /\ providers # None
  /\ DOMAIN state.providerPhases = {"AppProvider", "HashProvider"}
  /\ DOMAIN state.providerPhases["AppProvider"] = {"boot", "shutdown"}
  /\ Rows["AppProvider"].shutdownTime = 2
  /\ Rows["AppProvider"].registerTime = 0
  /\ Rows["AppProvider"].totalTime = 1
  /\ Rows["HashProvider"].totalTime = 2
  /\ summary[1].totalProviderTime = 3

-----------------------------------------------------------------------------
(* Import Observer: batching and filtering.                                *)

RECURSIVE Flatten(_)
Flatten(batches) == IF batches = <<>> THEN <<>> ELSE Head(batches) \o Flatten(Tail(batches))

\* The observations queued or posted and not yet handled by the loader.
InTransit == pendingMessages \o Flatten(channel)

\* This step runs a scheduled flush.
FlushRuns == immediates' < immediates

=============================================================================
